---- MODULE Spec2Model ----
(***************************************************************************)
(* Verification model of the book translator pipeline:                     *)
(*   - core/translator.py : Translator.translate_chunks, translate_one,    *)
(*                          Translator._translate_single                   *)
(*   - core/chunker.py    : chunk_text, _detect_chapter_breaks,            *)
(*                          _split_at_chapters, _split_section             *)
(* Two specifications share the module: Spec (the asyncio orchestrator of  *)
(* translator.py, one action per await-to-await step of a task) and        *)
(* SpecChunk (the chunker, one action per loop iteration of chunk_text).   *)
(***************************************************************************)
EXTENDS Integers, Sequences, FiniteSets, TLC

VARIABLES
    \* ---- translator.py ----
    max_concurrent,  \* Translator.max_concurrent
    max_retries,     \* Translator.max_retries
    chunks,          \* the chunk list handed to translate_chunks
    on_progress,     \* TRUE iff a progress observer was given
    main,            \* position of translate_chunks: "idle", "gather", "returned"
    sem,             \* asyncio.Semaphore._value
    waiters,         \* asyncio.Semaphore._waiters (FIFO of task positions)
    pc,              \* position of each translate_one task
    attempt,         \* loop variable of _translate_single, per task
    delay,           \* argument of the pending asyncio.sleep, per task (0: none)
    calls,           \* number of remote calls begun, per task
    kinds,           \* kinds of failure the task's calls have raised so far
    last,            \* outcome of the task's latest finished remote call
    results,         \* the results list (index -> TranslationResult or None)
    completed,       \* the nonlocal counter of translate_chunks
    progress,        \* the observer's invocations, in order
    \* ---- chunker.py ----
    pages,           \* the page list handed to chunk_text
    target_words,    \* chunk_text's target_words
    cpc,             \* position of chunk_text
    breaks,          \* chapter_breaks (list of {page_num, label})
    sections,        \* sections (list of {pages, chapter_label, start_page})
    si,              \* number of sections consumed by the loop of chunk_text
    out,             \* the list `chunks` built by chunk_text
    \* ---- app.py, phase 5 (build PDF) ----
    bchunks,         \* `chunks` as the loop reads them: index, start_page, end_page
    bresults,        \* `results` as the loop reads them
    images,          \* `images`: the ImageInfo list of extract_images
    bpc,             \* position of the phase: "idle", "next", "images", "done", "raised"
    ri,              \* number of results the loop has taken
    pending,         \* chunk_images still to insert (positions in images)
    layout,          \* the layout operations applied to the builder, in order
    \* ---- pdf_builder.py ----
    rendered,        \* the texts handed to render_translated_text, in order
    rpos,            \* the line index i of render_translated_text
    rpc,             \* position of render_translated_text: "idle", "loop"
    last_chapter,    \* PDFBuilder._last_chapter
    chapters,        \* PDFBuilder._chapters
    elements,        \* the layout elements emitted by the builder, in order
    chapter_log,     \* the calls of add_chapter, in order, with their effect
    visited          \* the values of i at which the loop body began, this call

tvars == <<max_concurrent, max_retries, chunks, on_progress, main, sem, waiters,
           pc, attempt, delay, calls, kinds, last, results, completed, progress>>
cvars == <<pages, target_words, cpc, breaks, sections, si, out>>
bvars == <<bchunks, bresults, images, bpc, ri, pending, layout>>
rvars == <<rendered, rpos, rpc, last_chapter, chapters, elements, chapter_log,
           visited>>
vars == <<tvars, cvars, bvars, rvars>>

(***************************************************************************)
(* Bounds of the model.                                                    *)
(***************************************************************************)
MaxChunks == 3
MaxConcurrent == 2
MaxRetries == 3
\* A run makes at most MaxCalls remote calls: len(chunks) * (max_retries + 1).
MaxCalls == 6
MaxPages == 3
\* Total number of text lines of the pages handed to chunk_text.
MaxDocLines == 4
MaxTarget == 2

(***************************************************************************)
(* Text.  A text is the sequence of its lines (str.split('\n')), a line    *)
(* the sequence of its whitespace-separated tokens; a line with no token   *)
(* is a blank line.  "Chapter" followed by "1" stands for a heading that   *)
(* CHAPTER_PATTERNS matches, "w" for any other word.                       *)
(***************************************************************************)
RECURSIVE WordCount(_)
WordCount(text) ==
    IF text = <<>> THEN 0 ELSE Len(Head(text)) + WordCount(Tail(text))

Chunk(index, text, start_page, end_page, chapter_label) ==
    [index |-> index, text |-> text, start_page |-> start_page,
     end_page |-> end_page, chapter_label |-> chapter_label,
     word_count |-> WordCount(text)]

(***************************************************************************)
(* translator.py                                                           *)
(***************************************************************************)
None == [none |-> TRUE]

TranslationResult(chunk_index, original_text, translated_text, success, error) ==
    [chunk_index |-> chunk_index, original_text |-> original_text,
     translated_text |-> translated_text, success |-> success, error |-> error]

\* What the remote call can do: return a text, raise RateLimitError, or raise
\* another exception (authentication, permission/credits, generic).
Translations == {"tr1", "tr2"}
Errors == {"authentication", "permission", "generic"}
Ok(t) == [kind |-> "ok", val |-> t]
RateLimited == [kind |-> "rate_limit", val |-> "RateLimitError"]
Failed(e) == [kind |-> "error", val |-> e]
NoOutcome == [kind |-> "none", val |-> ""]

RECURSIVE Words(_)
\* A line of n words.
Words(n) == IF n = 0 THEN <<>> ELSE Append(Words(n - 1), "w")

\* Chunk lists as chunk_text builds them: the chunk at position i has index i.
\* The texts differ from chunk to chunk (chunk i is one line of i + 1 words).
ChunkList(n) == [p \in 1..n |-> Chunk(p - 1, <<Words(p)>>, p, p, <<>>)]
ChunkLists == {ChunkList(n) : n \in 0..MaxChunks}

Tasks == 1..Len(chunks)

\* ---- asyncio.Semaphore, as translate_one uses it ----

\* Faulty variant of Locked: the admission gate never closes.
LockedNever == FALSE

\* Semaphore.locked(): no free slot, or somebody is queued already.
Locked == sem = 0 \/ waiters # <<>>

RECURSIVE WakeUp(_, _, _)
\* `while self._value > 0: self._wake_up_next()`: every free slot is handed to the
\* first queued task that is still waiting.  Yields <<value, pc>>.
WakeUp(value, q, state) ==
    IF value = 0 \/ q = <<>> THEN <<value, state>>
    ELSE IF state[Head(q)] = "waiting"
         THEN WakeUp(value - 1, Tail(q), [state EXCEPT ![Head(q)] = "woken"])
         ELSE WakeUp(value, Tail(q), state)

\* Faulty variant of Release: the slot of a finished task is not given back.
ReleaseLost(value, q, state) == <<value, state>>
\* Faulty variant of Release: the slot is freed but no waiter is woken.
ReleaseNoWake(value, q, state) == <<value + 1, state>>

\* Semaphore.release(), on leaving `async with`: one slot is freed and handed
\* to the next waiter, if any.
Release(value, q, state) ==
    IF \E k \in 1..Len(q) : state[q[k]] = "waiting"
    THEN LET k == CHOOSE k \in 1..Len(q) :
                      /\ state[q[k]] = "waiting"
                      /\ \A j \in 1..(k - 1) : state[q[j]] # "waiting"
         IN <<value, [state EXCEPT ![q[k]] = "woken"]>>
    ELSE <<value + 1, state>>

Remove(q, p) == SelectSeq(q, LAMBDA x : x # p)

\* ---- Translator._translate_single ----

\* Faulty variant of RateLimitDelay: the delay doubles with every attempt.
RateLimitDelayDoubling(a) == 5 * (2 ^ a)

\* asyncio.sleep argument after a RateLimitError on attempt a (0-based).
RateLimitDelay(a) == 5 * (a + 1)
\* asyncio.sleep argument after any other exception.
ErrorDelay == 2

\* Faulty variant of SuccessResult: the source text is stored as the translation.
SuccessResultEcho(chunk, translated) ==
    TranslationResult(chunk.index, chunk.text, chunk.text, TRUE, "")
\* Faulty variant of ErrorResult: the failure's own description is lost.
ErrorResultGeneric(chunk, e) ==
    TranslationResult(chunk.index, chunk.text, "", FALSE, "Translation failed")

SuccessResult(chunk, translated) ==
    TranslationResult(chunk.index, chunk.text, translated, TRUE, "")
RateLimitResult(chunk) ==
    TranslationResult(chunk.index, chunk.text, "", FALSE, "Rate limited after retries")
ErrorResult(chunk, e) ==
    TranslationResult(chunk.index, chunk.text, "", FALSE, e)

\* Faulty variant of MayRetry: one attempt too many.
MayRetryOnceMore(a) == a <= max_retries

\* `if attempt < self.max_retries`: another attempt is left.
MayRetry(a) == a < max_retries

\* ---- translate_one, after _translate_single returned r ----

\* Faulty variant of StoreResult: results are stored in completion order.
StoreByCompletion(res, chunk, r) == [res EXCEPT ![completed] = r]
\* Faulty variant of Report: the counter is read before it is incremented.
ReportStale(log, done, chunk) ==
    IF on_progress THEN Append(log, <<done - 1, Len(chunks), chunk.index>>) ELSE log

StoreResult(res, chunk, r) == [res EXCEPT ![chunk.index] = r]

Report(log, done, chunk) ==
    IF on_progress THEN Append(log, <<done, Len(chunks), chunk.index>>) ELSE log

\* Faulty variant of Finish: the counter is written back from a value read
\* before the remote call, so an increment made meanwhile by another task is
\* lost.
FinishStaleCount(p, r) ==
    LET rel == Release(sem, waiters, [pc EXCEPT ![p] = "done"])
        done == IF completed = 0 THEN 1 ELSE completed
    IN
    /\ results' = StoreResult(results, chunks[p], r)
    /\ completed' = done
    /\ progress' = Report(progress, done, chunks[p])
    /\ sem' = rel[1]
    /\ pc' = rel[2]
    /\ delay' = [delay EXCEPT ![p] = 0]
    /\ UNCHANGED <<waiters, attempt, calls>>

\* results[chunk.index] = result; completed += 1; on_progress(...); the
\* semaphore is released on leaving `async with`; the task ends.  No await
\* stands between these statements (lines 75-78): they are one step.
Finish(p, r) ==
    LET rel == Release(sem, waiters, [pc EXCEPT ![p] = "done"]) IN
    /\ results' = StoreResult(results, chunks[p], r)
    /\ completed' = completed + 1
    /\ progress' = Report(progress, completed + 1, chunks[p])
    /\ sem' = rel[1]
    /\ pc' = rel[2]
    /\ delay' = [delay EXCEPT ![p] = 0]
    /\ UNCHANGED <<waiters, attempt, calls>>

\* Faulty variant of Backoff: the slot is given back for the time of the sleep.
BackoffReleasing(p, d) ==
    /\ pc' = [pc EXCEPT ![p] = "sleeping"]
    /\ delay' = [delay EXCEPT ![p] = d]
    /\ sem' = sem + 1
    /\ UNCHANGED <<waiters, attempt, calls, results, completed, progress>>

\* The task suspends in asyncio.sleep(d) before its next attempt.
Backoff(p, d) ==
    /\ pc' = [pc EXCEPT ![p] = "sleeping"]
    /\ delay' = [delay EXCEPT ![p] = d]
    /\ UNCHANGED <<sem, waiters, attempt, calls, results, completed, progress>>

\* ---- the actions ----

\* translate_chunks up to `await asyncio.gather(*tasks)`.
TranslateChunks ==
    /\ main = "idle"
    /\ \E cs \in ChunkLists, obs \in BOOLEAN :
         /\ Len(cs) * (max_retries + 1) <= MaxCalls
         /\ chunks' = cs
         /\ on_progress' = obs
         /\ sem' = max_concurrent
         /\ waiters' = <<>>
         /\ results' = [i \in 0..(Len(cs) - 1) |-> None]
         /\ completed' = 0
         /\ progress' = <<>>
         /\ pc' = [p \in 1..Len(cs) |-> "ready"]
         /\ attempt' = [p \in 1..Len(cs) |-> 0]
         /\ delay' = [p \in 1..Len(cs) |-> 0]
         /\ calls' = [p \in 1..Len(cs) |-> 0]
         /\ kinds' = [p \in 1..Len(cs) |-> {}]
         /\ last' = [p \in 1..Len(cs) |-> NoOutcome]
    /\ main' = "gather"
    /\ UNCHANGED <<max_concurrent, max_retries, cvars, bvars, rvars>>

\* First step of a task: `async with semaphore`, then the first remote call
\* of _translate_single is begun, or the task queues on the semaphore.
TaskStart(p) ==
    /\ main = "gather"
    /\ pc[p] = "ready"
    /\ IF ~Locked
       THEN /\ sem' = sem - 1
            /\ pc' = [pc EXCEPT ![p] = "calling"]
            /\ calls' = [calls EXCEPT ![p] = 1]
            /\ UNCHANGED waiters
       ELSE /\ waiters' = Append(waiters, p)
            /\ pc' = [pc EXCEPT ![p] = "waiting"]
            /\ UNCHANGED <<sem, calls>>
    /\ UNCHANGED <<max_concurrent, max_retries, chunks, on_progress, main, attempt,
                   delay, kinds, last, results, completed, progress, cvars, bvars, rvars>>

\* A woken waiter resumes inside Semaphore.acquire, leaves the queue, passes
\* on any free slot and begins its first remote call.
TaskResume(p) ==
    /\ main = "gather"
    /\ pc[p] = "woken"
    /\ LET q == Remove(waiters, p)
           w == WakeUp(sem, q, [pc EXCEPT ![p] = "calling"])
       IN /\ waiters' = q
          /\ sem' = w[1]
          /\ pc' = w[2]
    /\ calls' = [calls EXCEPT ![p] = 1]
    /\ UNCHANGED <<max_concurrent, max_retries, chunks, on_progress, main, attempt,
                   delay, kinds, last, results, completed, progress, cvars, bvars, rvars>>

\* client.messages.create returns a message: lines 107-112.
CallReturns(p) ==
    /\ main = "gather"
    /\ pc[p] = "calling"
    /\ \E t \in Translations :
         /\ last' = [last EXCEPT ![p] = Ok(t)]
         /\ Finish(p, SuccessResult(chunks[p], t))
    /\ UNCHANGED <<max_concurrent, max_retries, chunks, on_progress, main, kinds, cvars, bvars, rvars>>

\* client.messages.create raises anthropic.RateLimitError: lines 113-123.
CallRateLimited(p) ==
    /\ main = "gather"
    /\ pc[p] = "calling"
    /\ last' = [last EXCEPT ![p] = RateLimited]
    /\ kinds' = [kinds EXCEPT ![p] = @ \cup {"rate_limit"}]
    /\ IF MayRetry(attempt[p])
       THEN Backoff(p, RateLimitDelay(attempt[p]))
       ELSE Finish(p, RateLimitResult(chunks[p]))
    /\ UNCHANGED <<max_concurrent, max_retries, chunks, on_progress, main, cvars, bvars, rvars>>

\* client.messages.create raises any other Exception: lines 124-134.
CallRaises(p) ==
    /\ main = "gather"
    /\ pc[p] = "calling"
    /\ \E e \in Errors :
         /\ last' = [last EXCEPT ![p] = Failed(e)]
         /\ kinds' = [kinds EXCEPT ![p] = @ \cup {"error"}]
         /\ IF MayRetry(attempt[p])
            THEN Backoff(p, ErrorDelay)
            ELSE Finish(p, ErrorResult(chunks[p], e))
    /\ UNCHANGED <<max_concurrent, max_retries, chunks, on_progress, main, cvars, bvars, rvars>>

\* asyncio.sleep is over: `continue`, the next attempt's remote call begins.
SleepEnds(p) ==
    /\ main = "gather"
    /\ pc[p] = "sleeping"
    /\ pc' = [pc EXCEPT ![p] = "calling"]
    /\ attempt' = [attempt EXCEPT ![p] = @ + 1]
    /\ calls' = [calls EXCEPT ![p] = @ + 1]
    /\ delay' = [delay EXCEPT ![p] = 0]
    /\ UNCHANGED <<max_concurrent, max_retries, chunks, on_progress, main, sem, waiters,
                   kinds, last, results, completed, progress, cvars, bvars, rvars>>

\* Faulty variant of AllTasksDone: the wait ends with the first finished task.
AnyTaskDone == \E p \in Tasks : pc[p] = "done"

\* asyncio.gather is over once every task has ended; `return results`.
AllTasksDone == \A p \in Tasks : pc[p] = "done"

Return ==
    /\ main = "gather"
    /\ AllTasksDone
    /\ main' = "returned"
    /\ UNCHANGED <<max_concurrent, max_retries, chunks, on_progress, sem, waiters, pc,
                   attempt, delay, calls, kinds, last, results, completed, progress,
                   cvars, bvars, rvars>>

\* Phase 5 of app.py has not begun.
BuildNotStarted ==
    /\ bchunks = <<>>
    /\ bresults = <<>>
    /\ images = <<>>
    /\ bpc = "idle"
    /\ ri = 0
    /\ pending = <<>>
    /\ layout = <<>>

\* self._last_chapter = None, as a token sequence no key equals (a key holds "|").
NoChapter == <<>>

\* PDFBuilder.__init__: no chapter yet, nothing emitted, no text handed over.
NewBuilder ==
    /\ rendered = <<>>
    /\ rpos = 0
    /\ rpc = "idle"
    /\ last_chapter = NoChapter
    /\ chapters = <<>>
    /\ elements = <<>>
    /\ chapter_log = <<>>
    /\ visited = <<>>

\* Translator(api_key, model, max_concurrent, max_retries), before any call.
Init ==
    /\ max_concurrent \in 1..MaxConcurrent
    /\ max_retries \in 0..MaxRetries
    /\ chunks = <<>>
    /\ on_progress = FALSE
    /\ main = "idle"
    /\ sem = 0
    /\ waiters = <<>>
    /\ pc = <<>>
    /\ attempt = <<>>
    /\ delay = <<>>
    /\ calls = <<>>
    /\ kinds = <<>>
    /\ last = <<>>
    /\ results = <<>>
    /\ completed = 0
    /\ progress = <<>>
    /\ pages = <<>>
    /\ target_words = 1
    /\ cpc = "idle"
    /\ breaks = <<>>
    /\ sections = <<>>
    /\ si = 0
    /\ out = <<>>
    /\ BuildNotStarted
    /\ NewBuilder

Next ==
    \/ TranslateChunks
    \/ \E p \in Tasks : TaskStart(p)
    \/ \E p \in Tasks : TaskResume(p)
    \/ \E p \in Tasks : CallReturns(p)
    \/ \E p \in Tasks : CallRateLimited(p)
    \/ \E p \in Tasks : CallRaises(p)
    \/ \E p \in Tasks : SleepEnds(p)
    \/ Return

Spec == Init /\ [][Next]_vars

\* What the event loop and the remote service guarantee: a task that can run
\* is run (asyncio schedules every ready task and every woken waiter), every
\* remote call completes with a message or an exception, every asyncio.sleep
\* ends, and gather returns once all its tasks have ended.
CallCompletes(p) == CallReturns(p) \/ CallRateLimited(p) \/ CallRaises(p)

Fairness ==
    /\ \A p \in 1..MaxChunks :
         /\ WF_vars(p \in Tasks /\ TaskStart(p))
         /\ WF_vars(p \in Tasks /\ TaskResume(p))
         /\ WF_vars(p \in Tasks /\ CallCompletes(p))
         /\ WF_vars(p \in Tasks /\ SleepEnds(p))
    /\ WF_vars(Return)

SpecLive == Spec /\ Fairness

(***************************************************************************)
(* chunker.py                                                              *)
(***************************************************************************)
Min(a, b) == IF a < b THEN a ELSE b

PageContent(page_num, text) == [page_num |-> page_num, text |-> text]

Blank == <<>>
IsBlank(line) == line = <<>>

\* The lines a page can hold: blank, one word, two words, a chapter heading.
LineSet == {Blank, <<"w">>, <<"w", "w">>, <<"Chapter", "1">>}

RECURSIVE SeqsOf(_, _)
SeqsOf(S, n) ==
    IF n = 0 THEN {<<>>}
    ELSE {Append(s, x) : s \in SeqsOf(S, n - 1), x \in S}

RECURSIVE TextLists(_, _)
\* The lists of k page texts that hold n lines in all; a page text has at
\* least one line (''.split('\n') is ['']).
TextLists(n, k) ==
    IF k = 0 THEN (IF n = 0 THEN {<<>>} ELSE {})
    ELSE UNION {{<<t>> \o d : t \in SeqsOf(LineSet, m), d \in TextLists(n - m, k - 1)}
                : m \in 1..(n - k + 1)}

\* Pages as the extractor numbers them: page_num = i + 1, contiguous.
PageLists ==
    {[i \in 1..Len(ts) |-> PageContent(i, ts[i])] :
        ts \in UNION {TextLists(n, k) : n \in 0..MaxDocLines, k \in 0..MaxPages}}

\* ---- _detect_chapter_breaks ----

CheckedLines == 10
LabelMax == 80

\* re.match(combined_pattern, stripped, re.IGNORECASE): a heading keyword, then
\* a number.
MatchesChapter(line) ==
    Len(line) >= 2 /\ line[1] \in {"Chapter", "CHAPTER"} /\ line[2] = "1"

\* Number of characters of a token, and of a stripped line (tokens one
\* space apart).
TokenLen(tok) == IF tok \in {"Chapter", "CHAPTER"} THEN 7 ELSE 1
RECURSIVE CharLen(_)
CharLen(line) ==
    IF line = <<>> THEN 0
    ELSE IF Len(line) = 1 THEN TokenLen(line[1])
    ELSE TokenLen(Head(line)) + 1 + CharLen(Tail(line))

\* Faulty variant of Clip: the label is not cut.
ClipNone(line, n) == line

RECURSIVE Clip(_, _)
\* stripped[:n], to whole tokens.
Clip(line, n) ==
    IF CharLen(line) <= n THEN line ELSE Clip(SubSeq(line, 1, Len(line) - 1), n)

RECURSIVE FirstMatch(_)
\* The first line of `lines` that is non-empty and matches, or <<>>.
FirstMatch(lines) ==
    IF lines = <<>> THEN <<>>
    ELSE IF ~IsBlank(Head(lines)) /\ MatchesChapter(Head(lines)) THEN Head(lines)
    ELSE FirstMatch(Tail(lines))

RECURSIVE detect_chapter_breaks(_)
detect_chapter_breaks(pgs) ==
    IF pgs = <<>> THEN <<>>
    ELSE LET page == Head(pgs)
             hit == FirstMatch(SubSeq(page.text, 1, Min(Len(page.text), CheckedLines)))
         IN (IF hit = <<>> THEN <<>>
             ELSE <<[page_num |-> page.page_num, label |-> Clip(hit, LabelMax)]>>)
            \o detect_chapter_breaks(Tail(pgs))

\* ---- _split_at_chapters ----

Section(pgs, label) ==
    [pages |-> pgs, chapter_label |-> label, start_page |-> pgs[1].page_num]

BreakPages(brks) == {brks[k].page_num : k \in 1..Len(brks)}
\* break_labels.get(page_num, ""): the dict keeps the last entry of a key.
BreakLabel(brks, n) ==
    IF n \in BreakPages(brks)
    THEN brks[CHOOSE k \in 1..Len(brks) :
                 /\ brks[k].page_num = n
                 /\ \A j \in (k + 1)..Len(brks) : brks[j].page_num # n].label
    ELSE <<>>

RECURSIVE SplitLoop(_, _, _, _, _)
\* The loop of lines 92-104, then lines 106-111.
SplitLoop(rest, brks, secs, current_pages, current_label) ==
    IF rest = <<>>
    THEN IF current_pages # <<>>
         THEN Append(secs, Section(current_pages, current_label))
         ELSE secs
    ELSE LET page == Head(rest) IN
         IF page.page_num \in BreakPages(brks) /\ current_pages # <<>>
         THEN SplitLoop(Tail(rest), brks,
                        Append(secs, Section(current_pages, current_label)),
                        <<page>>, BreakLabel(brks, page.page_num))
         ELSE IF page.page_num \in BreakPages(brks)
         THEN SplitLoop(Tail(rest), brks, secs, Append(current_pages, page),
                        BreakLabel(brks, page.page_num))
         ELSE SplitLoop(Tail(rest), brks, secs, Append(current_pages, page),
                        current_label)

\* Faulty variant of split_at_chapters: the breaks are ignored.
SplitAtChaptersWhole(pgs, brks) ==
    <<[pages |-> pgs, chapter_label |-> <<>>,
       start_page |-> IF pgs # <<>> THEN pgs[1].page_num ELSE 1]>>

split_at_chapters(pgs, brks) ==
    IF brks = <<>>
    THEN <<[pages |-> pgs, chapter_label |-> <<>>,
            start_page |-> IF pgs # <<>> THEN pgs[1].page_num ELSE 1]>>
    ELSE SplitLoop(pgs, brks, <<>>, <<>>, <<>>)

\* ---- _split_section ----

RECURSIVE JoinTexts(_)
\* "\n\n".join(texts): one empty line between two texts; "" is one empty line.
JoinTexts(texts) ==
    IF texts = <<>> THEN <<Blank>>
    ELSE IF Len(texts) = 1 THEN texts[1]
    ELSE texts[1] \o <<Blank>> \o JoinTexts(Tail(texts))

PageTextsOf(pgs) == [i \in 1..Len(pgs) |-> pgs[i].text]

\* A match of \n\s*\n covers a run of blank lines that are neither the first
\* nor the last line of the text.
IsSeparator(text, k) == 1 < k /\ k < Len(text) /\ IsBlank(text[k])

RECURSIVE ParagraphsFrom(_, _, _)
\* re.split(r'\n\s*\n', text) from line k on, `cur` being the lines of the
\* paragraph under way.
ParagraphsFrom(text, k, cur) ==
    IF k > Len(text) THEN <<cur>>
    ELSE IF IsSeparator(text, k)
         THEN IF IsSeparator(text, k + 1)
              THEN ParagraphsFrom(text, k + 1, cur)
              ELSE <<cur>> \o ParagraphsFrom(text, k + 2, <<text[k + 1]>>)
         ELSE ParagraphsFrom(text, k + 1, Append(cur, text[k]))

Paragraphs(text) == ParagraphsFrom(text, 2, <<text[1]>>)

\* Faulty variant of FitsWhole: a section of up to twice target_words is kept whole.
FitsWholeDouble(word_count, target) == word_count <= 2 * target

\* word_count <= target_words * 1.3
FitsWhole(word_count, target) == 10 * word_count <= 13 * target

\* Faulty variant of SubChunk: the sub-chunk ends on the page it starts on.
SubChunkOnePage(text, start_page, end_page, label) ==
    [text |-> text, start_page |-> start_page, end_page |-> start_page,
     chapter_label |-> label]

\* Faulty variant of SubChunk: the two page numbers are exchanged.
SubChunkSwapped(text, start_page, end_page, label) ==
    [text |-> text, start_page |-> end_page, end_page |-> start_page,
     chapter_label |-> label]

SubChunk(text, start_page, end_page, label) ==
    [text |-> text, start_page |-> start_page, end_page |-> end_page,
     chapter_label |-> label]

\* Faulty variant of LastPage: pages[0] instead of pages[-1].
LastPageFirst(section) == section.pages[1].page_num

LastPage(section) == section.pages[Len(section.pages)].page_num

RECURSIVE GroupLoopEager(_, _, _, _, _, _)
\* Faulty variant of GroupLoop: a sub-chunk is flushed as soon as the next
\* paragraph would reach target_words.
GroupLoopEager(paras, section, target, sub_chunks, current_text, current_words) ==
    IF paras = <<>>
    THEN IF current_text # <<>>
         THEN Append(sub_chunks,
                     [text |-> JoinTexts(current_text), start_page |-> section.start_page,
                      end_page |-> section.pages[Len(section.pages)].page_num,
                      chapter_label |-> <<>>])
         ELSE sub_chunks
    ELSE LET para == Head(paras)
             para_words == WordCount(para)
         IN IF current_words + para_words >= target /\ current_text # <<>>
            THEN GroupLoopEager(Tail(paras), section, target,
                                Append(sub_chunks,
                                       [text |-> JoinTexts(current_text),
                                        start_page |-> section.start_page,
                                        end_page |-> section.pages[Len(section.pages)].page_num,
                                        chapter_label |-> IF sub_chunks = <<>>
                                                          THEN section.chapter_label
                                                          ELSE <<>>]),
                                <<para>>, para_words)
            ELSE GroupLoopEager(Tail(paras), section, target, sub_chunks,
                                Append(current_text, para), current_words + para_words)

RECURSIVE GroupLoop(_, _, _, _, _, _)
\* The loop of lines 136-149, then lines 151-157.
GroupLoop(paras, section, target, sub_chunks, current_text, current_words) ==
    IF paras = <<>>
    THEN IF current_text # <<>>
         THEN Append(sub_chunks,
                     SubChunk(JoinTexts(current_text), section.start_page,
                              LastPage(section), <<>>))
         ELSE sub_chunks
    ELSE LET para == Head(paras)
             para_words == WordCount(para)
         IN IF current_words + para_words > target /\ current_text # <<>>
            THEN GroupLoop(Tail(paras), section, target,
                           Append(sub_chunks,
                                  SubChunk(JoinTexts(current_text), section.start_page,
                                           LastPage(section),
                                           IF sub_chunks = <<>>
                                           THEN section.chapter_label ELSE <<>>)),
                           <<para>>, para_words)
            ELSE GroupLoop(Tail(paras), section, target, sub_chunks,
                           Append(current_text, para), current_words + para_words)

\* section["pages"][-1] raises IndexError on a section without pages.
Raises(section) == section.pages = <<>>

\* Faulty variant of split_section: an over-long section is cut at every line.
SplitSectionByLine(section, target) ==
    LET full_text == JoinTexts(PageTextsOf(section.pages))
    IN IF FitsWhole(WordCount(full_text), target)
       THEN <<SubChunk(full_text, section.start_page, LastPage(section),
                       section.chapter_label)>>
       ELSE [k \in 1..Len(full_text) |->
               SubChunk(<<full_text[k]>>, section.start_page, LastPage(section),
                        IF k = 1 THEN section.chapter_label ELSE <<>>)]

\* Faulty variant of split_section: a section without words yields no chunk.
SplitSectionSkipEmpty(section, target) ==
    LET full_text == JoinTexts(PageTextsOf(section.pages))
        word_count == WordCount(full_text)
    IN IF word_count = 0 THEN <<>>
       ELSE IF FitsWhole(word_count, target)
       THEN <<SubChunk(full_text, section.start_page, LastPage(section),
                       section.chapter_label)>>
       ELSE GroupLoop(Paragraphs(full_text), section, target, <<>>, <<>>, 0)

\* Defined for a section with at least one page.
split_section(section, target) ==
    LET full_text == JoinTexts(PageTextsOf(section.pages))
        word_count == WordCount(full_text)
    IN IF FitsWhole(word_count, target)
       THEN <<SubChunk(full_text, section.start_page, LastPage(section),
                       section.chapter_label)>>
       ELSE GroupLoop(Paragraphs(full_text), section, target, <<>>, <<>>, 0)

\* ---- chunk_text ----

\* Faulty variant of AppendChunks: the index restarts with every section.
AppendChunksPerSection(chs, section_chunks) ==
    chs \o [k \in 1..Len(section_chunks) |->
               Chunk(k - 1, section_chunks[k].text, section_chunks[k].start_page,
                     section_chunks[k].end_page, section_chunks[k].chapter_label)]

RECURSIVE AppendChunks(_, _)
\* Lines 49-56: each sub-chunk becomes a Chunk whose index is len(chunks).
AppendChunks(chs, section_chunks) ==
    IF section_chunks = <<>> THEN chs
    ELSE LET sc == Head(section_chunks) IN
         AppendChunks(Append(chs, Chunk(Len(chs), sc.text, sc.start_page, sc.end_page,
                                        sc.chapter_label)),
                      Tail(section_chunks))

\* chunk_text is called: lines 43-46.
ChunkText ==
    /\ cpc = "idle"
    /\ \E pgs \in PageLists, tw \in 1..MaxTarget :
         /\ pages' = pgs
         /\ target_words' = tw
         /\ breaks' = detect_chapter_breaks(pgs)
         /\ sections' = split_at_chapters(pgs, detect_chapter_breaks(pgs))
    /\ si' = 0
    /\ out' = <<>>
    /\ cpc' = "sections"
    /\ UNCHANGED <<tvars, bvars, rvars>>

\* One iteration of `for section in sections`: lines 47-56.
NextSection ==
    /\ cpc = "sections"
    /\ si < Len(sections)
    /\ ~Raises(sections[si + 1])
    /\ out' = AppendChunks(out, split_section(sections[si + 1], target_words))
    /\ si' = si + 1
    /\ UNCHANGED <<pages, target_words, cpc, breaks, sections, tvars, bvars, rvars>>

\* _split_section raises IndexError; chunk_text ends with the exception.
SectionRaises ==
    /\ cpc = "sections"
    /\ si < Len(sections)
    /\ Raises(sections[si + 1])
    /\ cpc' = "raised"
    /\ UNCHANGED <<pages, target_words, breaks, sections, si, out, tvars, bvars, rvars>>

\* `return chunks`
ChunkReturn ==
    /\ cpc = "sections"
    /\ si = Len(sections)
    /\ cpc' = "returned"
    /\ UNCHANGED <<pages, target_words, breaks, sections, si, out, tvars, bvars, rvars>>

InitChunk ==
    /\ max_concurrent = 1
    /\ max_retries = 0
    /\ chunks = <<>>
    /\ on_progress = FALSE
    /\ main = "idle"
    /\ sem = 0
    /\ waiters = <<>>
    /\ pc = <<>>
    /\ attempt = <<>>
    /\ delay = <<>>
    /\ calls = <<>>
    /\ kinds = <<>>
    /\ last = <<>>
    /\ results = <<>>
    /\ completed = 0
    /\ progress = <<>>
    /\ pages = <<>>
    /\ target_words = 1
    /\ cpc = "idle"
    /\ breaks = <<>>
    /\ sections = <<>>
    /\ si = 0
    /\ out = <<>>
    /\ BuildNotStarted
    /\ NewBuilder

NextChunk ==
    \/ ChunkText
    \/ NextSection
    \/ SectionRaises
    \/ ChunkReturn

SpecChunk == InitChunk /\ [][NextChunk]_vars

\* ---- _detect_chapter_breaks on pages of more than CheckedLines lines and
\* ---- headings of more than LabelMax characters ----

MaxDetectPages == 2
MaxLabelWords == 40

\* "Chapter 1 w w ... w": 9 + 2 * MaxLabelWords characters.
LongHeading == <<"Chapter", "1">> \o Words(MaxLabelWords)
DetectLineSet == {<<"CHAPTER", "1">>, <<"w", "Chapter", "1">>, LongHeading}
Blanks(n) == [k \in 1..n |-> Blank]
LeadCounts == {0, CheckedLines - 1, CheckedLines}
\* A page text: empty lines, then up to two lines of DetectLineSet.
DetectTexts ==
    {t \in {Blanks(n) \o hs : n \in LeadCounts,
                              hs \in UNION {[1..m -> DetectLineSet] : m \in 0..2}} :
        t # <<>>}
DetectPageLists ==
    {[i \in 1..Len(ts) |-> PageContent(i, ts[i])] :
        ts \in UNION {[1..k -> DetectTexts] : k \in 1..MaxDetectPages}}

\* chapter_breaks = _detect_chapter_breaks(pages): line 42.
DetectChapterBreaks ==
    /\ cpc = "idle"
    /\ \E pgs \in DetectPageLists :
         /\ pages' = pgs
         /\ breaks' = detect_chapter_breaks(pgs)
    /\ cpc' = "detected"
    /\ UNCHANGED <<target_words, sections, si, out, tvars, bvars, rvars>>

InitDetect == InitChunk

NextDetect == DetectChapterBreaks

SpecDetect == InitDetect /\ [][NextDetect]_vars

(***************************************************************************)
(* app.py, phase 5: the PDF is built from the results                      *)
(***************************************************************************)

MaxImages == 2

RECURSIVE ChunkSections(_, _, _)
\* `for section in sections` of chunk_text, lines 46-56, run to its end.
ChunkSections(secs, target, chs) ==
    IF secs = <<>> THEN chs
    ELSE ChunkSections(Tail(secs), target,
                       AppendChunks(chs, split_section(Head(secs), target)))

\* chunk_text(pages, target_words) for a page list of at least one page.
chunk_text(pgs, target) ==
    ChunkSections(split_at_chapters(pgs, detect_chapter_breaks(pgs)), target, <<>>)

\* What the loop of phase 5 reads of a chunk.
PageRange(c) ==
    [index |-> c.index, start_page |-> c.start_page, end_page |-> c.end_page]

\* The chunk lists chunk_text produces, as phase 5 reads them.
ChunkRangeLists ==
    {[k \in 1..Len(cs) |-> PageRange(cs[k])] :
        cs \in {chunk_text(pgs, tw) : pgs \in PageLists \ {<<>>}, tw \in 1..MaxTarget}}

\* The result of chunk k as the loop reads it: results[i].chunk_index = i.
ResultOf(c, ok) ==
    [chunk_index |-> c.index, success |-> ok,
     translated_text |-> IF ok THEN "tr1" ELSE ""]
ResultLists(cs) ==
    {[k \in 1..Len(cs) |-> ResultOf(cs[k], ok[k])] : ok \in [1..Len(cs) -> BOOLEAN]}

ImageInfo(page_num, image_data) == [page_num |-> page_num, image_data |-> image_data]
\* extract_images goes through the pages in order: page numbers never decrease.
ImageLists(last_page) ==
    {[k \in 1..Len(ps) |-> ImageInfo(ps[k], "png")] :
        ps \in {q \in UNION {[1..n -> 1..last_page] : n \in 0..MaxImages} :
                   \A k \in 1..(Len(q) - 1) : q[k] <= q[k + 1]}}

\* [img for img in images if chunk.start_page <= img.page_num <= chunk.end_page],
\* as positions in images.
ChunkImages(imgs, chunk) ==
    SelectSeq([k \in 1..Len(imgs) |-> k],
              LAMBDA k : chunk.start_page <= imgs[k].page_num
                         /\ imgs[k].page_num <= chunk.end_page)

TitleOp == [op |-> "title"]
ImageOp(chunk_index, k) == [op |-> "image", chunk_index |-> chunk_index, image |-> k]
TextOp(chunk_index, text) == [op |-> "text", chunk_index |-> chunk_index, text |-> text]

\* Faulty variant of BuildPDF: the title page is forgotten.
BuildPDFNoTitle ==
    /\ bpc = "idle"
    /\ \E cs \in ChunkRangeLists :
         /\ bchunks' = cs
         /\ \E rs \in ResultLists(cs) : bresults' = rs
         /\ \E imgs \in ImageLists(cs[Len(cs)].end_page) : images' = imgs
    /\ layout' = <<>>
    /\ ri' = 0
    /\ pending' = <<>>
    /\ bpc' = "next"
    /\ UNCHANGED <<tvars, cvars, rvars>>

\* Lines 408-412: the builder is made and add_title_page is called; chunks,
\* results and images are those of phases 2-4.
BuildPDF ==
    /\ bpc = "idle"
    /\ \E cs \in ChunkRangeLists :
         /\ bchunks' = cs
         /\ \E rs \in ResultLists(cs) : bresults' = rs
         /\ \E imgs \in ImageLists(cs[Len(cs)].end_page) : images' = imgs
    /\ layout' = <<TitleOp>>
    /\ ri' = 0
    /\ pending' = <<>>
    /\ bpc' = "next"
    /\ UNCHANGED <<tvars, cvars, rvars>>

\* `for result in results` with result.success false: nothing is done.
SkipFailed ==
    /\ bpc = "next"
    /\ ri < Len(bresults)
    /\ ~bresults[ri + 1].success
    /\ ri' = ri + 1
    /\ UNCHANGED <<bchunks, bresults, images, bpc, pending, layout, tvars, cvars, rvars>>

\* `for result in results` with result.success: lines 416-419.
TakeResult ==
    /\ bpc = "next"
    /\ ri < Len(bresults)
    /\ bresults[ri + 1].success
    /\ ri' = ri + 1
    /\ pending' = ChunkImages(images, bchunks[bresults[ri + 1].chunk_index + 1])
    /\ bpc' = "images"
    /\ UNCHANGED <<bchunks, bresults, images, layout, tvars, cvars, rvars>>

\* builder.add_image(img.image_data) returns: line 421.
AddImage ==
    /\ bpc = "images"
    /\ pending # <<>>
    /\ layout' = Append(layout, ImageOp(bresults[ri].chunk_index, Head(pending)))
    /\ pending' = Tail(pending)
    /\ UNCHANGED <<bchunks, bresults, images, bpc, ri, tvars, cvars, rvars>>

\* builder.add_image raises (the image cannot be opened or saved); nothing
\* around line 421 catches it, phase 5 ends with the exception.
AddImageRaises ==
    /\ bpc = "images"
    /\ pending # <<>>
    /\ bpc' = "raised"
    /\ UNCHANGED <<bchunks, bresults, images, ri, pending, layout, tvars, cvars, rvars>>

\* builder.render_translated_text(result.translated_text): line 423.
RenderText ==
    /\ bpc = "images"
    /\ pending = <<>>
    /\ layout' = Append(layout, TextOp(bresults[ri].chunk_index,
                                       bresults[ri].translated_text))
    /\ bpc' = "next"
    /\ UNCHANGED <<bchunks, bresults, images, ri, pending, tvars, cvars, rvars>>

\* The loop is over: line 425.
BuildDone ==
    /\ bpc = "next"
    /\ ri = Len(bresults)
    /\ bpc' = "done"
    /\ UNCHANGED <<bchunks, bresults, images, ri, pending, layout, tvars, cvars, rvars>>

NextBuild ==
    \/ BuildPDF
    \/ SkipFailed
    \/ TakeResult
    \/ AddImage
    \/ AddImageRaises
    \/ RenderText
    \/ BuildDone

InitBuild == InitChunk

SpecBuild == InitBuild /\ [][NextBuild]_vars

(***************************************************************************)
(* pdf_builder.py: add_chapter and render_translated_text                  *)
(*                                                                         *)
(* A translated text is a sequence of lines and a line a sequence of       *)
(* tokens, as for the chunker.  Word tokens are written with one space     *)
(* between them; the tokens ":" and "|" are written without spaces around  *)
(* them, so that <<"a", "|", "b">> is the string "a|b" and appending token *)
(* sequences is string concatenation.  A "*" token is one asterisk, written *)
(* next to the text it encloses; a bold marker is two of them.  Lines are  *)
(* stripped.                                                               *)
(***************************************************************************)

MaxRenderLines == 4

RenderLineSet ==
    {Blank, <<"====">>, <<"T">>, <<"Chapter", "3">>, <<"Chapter", "3", ":", "T">>,
     <<"Epilogue", ":", "a", "|", "b">>, <<"Epilogue", "|", "a", ":", "b">>}

\* text.split('\n'): at least one line.
RenderTexts(n) == UNION {[1..m -> RenderLineSet] : m \in 1..n}

RECURSIVE TotalLines(_)
TotalLines(texts) ==
    IF texts = <<>> THEN 0 ELSE Len(Head(texts)) + TotalLines(Tail(texts))

\* The builder's state that add_chapter and the add_* methods change.
Builder == [last_chapter |-> last_chapter, chapters |-> chapters,
            elements |-> elements, chapter_log |-> chapter_log]

\* key = f"{label}|{title}"
Key(label, title) == label \o <<"|">> \o title

ChapterElement(label, title, at) ==
    [kind |-> "chapter", label |-> label, title |-> title, at |-> at]
ParagraphElement(text, at) ==
    [kind |-> "paragraph", text |-> text, at |-> at]
ChapterCall(label, title, emitted, at) ==
    [label |-> label, title |-> title, emitted |-> emitted, at |-> at]

\* add_chapter(label, title), called for the line `at` = <<call, line index>>.
add_chapter(b, label, title, at) ==
    IF b.last_chapter = Key(label, title)
    THEN [b EXCEPT !.chapter_log = Append(@, ChapterCall(label, title, FALSE, at))]
    ELSE [last_chapter |-> Key(label, title),
          chapters |-> Append(b.chapters, <<label, title>>),
          elements |-> Append(b.elements, ChapterElement(label, title, at)),
          chapter_log |-> Append(b.chapter_log, ChapterCall(label, title, TRUE, at))]

\* add_paragraph(text)
add_paragraph(b, text, at) ==
    [b EXCEPT !.elements = Append(@, ParagraphElement(text, at))]

\* `not line or line.startswith('====') or line == '---'`
Skipped(line) == line = <<>> \/ Head(line) = "====" \/ line = <<"---">>

ChapterWords == {"Chapter", "CHAPTER", "Capitulo", "Chapitre", "Kapitel", "Capitolo"}
EpilogueWords == {"Epilogue", "EPILOGUE", "Epilogo"}
Numbers == {"1", "2", "3"}
\* The em dash of the patterns, written in ASCII.
EmDash == "--"
TitleSeparators == {":", EmDash, "-"}

\* An optional leading '#' is not part of a heading.
StripHash(line) == IF line # <<>> /\ Head(line) = "#" THEN Tail(line) ELSE line

\* The chapter pattern of lines 210-213: a chapter word, then a number.
ChapterMatch(line) ==
    /\ Len(StripHash(line)) >= 2
    /\ StripHash(line)[1] \in ChapterWords
    /\ StripHash(line)[2] \in Numbers

RECURSIVE RStripStars(_)
\* rstrip('*').strip()
RStripStars(toks) ==
    IF toks # <<>> /\ toks[Len(toks)] = "*"
    THEN RStripStars(SubSeq(toks, 1, Len(toks) - 1)) ELSE toks

\* group(1) and group(2): what follows the number, less one separator.
ChapterNumber(line) == StripHash(line)[2]
ChapterTitle(line) ==
    LET rest == SubSeq(StripHash(line), 3, Len(StripHash(line)))
    IN RStripStars(IF rest # <<>> /\ Head(rest) \in TitleSeparators
                   THEN Tail(rest) ELSE rest)

RECURSIVE NextTitleLine(_, _)
\* Faulty variant of NextTitleLine: only the line right after the heading is
\* looked at.
NextTitleLineAdjacent(lines, j) ==
    IF j < Len(lines) /\ lines[j + 1] # <<>> /\ Head(lines[j + 1]) # "===="
    THEN j ELSE -1

\* Lines 217-224: the index of the next line that is neither empty nor a
\* '====' rule, or -1 when there is none (indices count from 0).
NextTitleLine(lines, j) ==
    IF j >= Len(lines) THEN -1
    ELSE IF lines[j + 1] # <<>> /\ Head(lines[j + 1]) # "===="
    THEN j
    ELSE NextTitleLine(lines, j + 1)

\* The epilogue pattern of line 249.
EpilogueMatch(line) == StripHash(line) # <<>> /\ StripHash(line)[1] \in EpilogueWords

\* title.split(sep, 1): the tokens before and after the first sep.
RECURSIVE FirstIndex(_, _, _)
FirstIndex(toks, sep, k) ==
    IF k > Len(toks) THEN 0
    ELSE IF toks[k] = sep THEN k
    ELSE FirstIndex(toks, sep, k + 1)
Before(toks, sep) == SubSeq(toks, 1, FirstIndex(toks, sep, 1) - 1)
After(toks, sep) == SubSeq(toks, FirstIndex(toks, sep, 1) + 1, Len(toks))

\* The other heading words, list markers and the double quote.
AppendixWords == {"Appendix", "APPENDIX", "Annexe"}
BibliographyWords == {"Bibliography", "BIBLIOGRAPHY"}
NumberedMarkers == {"1.", "2."}
LetteredMarkers == {"A.", "B."}
Quote == "\""

\* `line.startswith('Now let me') or line.startswith('Let me')`
MetaCommentary(line) ==
    \/ Len(line) >= 2 /\ line[1] = "Let" /\ line[2] = "me"
    \/ Len(line) >= 3 /\ line[1] = "Now" /\ line[2] = "let" /\ line[3] = "me"

\* The appendix pattern of lines 263-265: an appendix word, then letters or
\* digits; the label is f'Appendix {group(1)}', the title what follows less
\* one separator.
AppendixMatch(line) ==
    /\ Len(StripHash(line)) >= 2
    /\ StripHash(line)[1] \in AppendixWords
    /\ StripHash(line)[2] \notin {"*", ":", "|", "#", "##", EmDash, "-", Quote}
AppendixTitle(line) ==
    LET rest == SubSeq(StripHash(line), 3, Len(StripHash(line)))
    IN IF rest # <<>> /\ Head(rest) \in TitleSeparators THEN Tail(rest) ELSE rest

\* The bibliography pattern of line 273.
BibliographyMatch(line) ==
    StripHash(line) # <<>> /\ StripHash(line)[1] \in BibliographyWords

\* `^##\s+(.*)`
SectionMatch(line) == Len(line) >= 2 /\ line[1] = "##"

\* A bold marker is two "*" tokens.  startswith('**'), startswith('#').
StartsBold(line) == Len(line) >= 2 /\ line[1] = "*" /\ line[2] = "*"
StartsHash(line) == line # <<>> /\ line[1] \in {"#", "##"}

RECURSIVE NonStarEnd(_, _)
\* [^*]+ from position k: the position after the run of tokens other than "*".
NonStarEnd(toks, k) ==
    IF k > Len(toks) \/ toks[k] = "*" THEN k ELSE NonStarEnd(toks, k + 1)

\* `^\*\*([^*]+)\*\*`: the position of the closing marker, or 0.
BoldClose(line) ==
    LET m == NonStarEnd(line, 3)
    IN IF StartsBold(line) /\ m > 3 /\ m + 1 <= Len(line)
          /\ line[m] = "*" /\ line[m + 1] = "*"
       THEN m ELSE 0
BoldInner(line) == SubSeq(line, 3, BoldClose(line) - 1)
BoldRest(line) == SubSeq(line, BoldClose(line) + 2, Len(line))
\* `^\*\*([^*]+)\*\*\s*$` and `^\*\*([^*]+)\*\*\s*(.*)` with a non-empty group 2.
BoldSectionMatch(line) == BoldClose(line) > 0 /\ BoldRest(line) = <<>>
BoldParaMatch(line) == BoldClose(line) > 0 /\ BoldRest(line) # <<>>

RECURSIVE LStripStars(_)
LStripStars(toks) ==
    IF toks # <<>> /\ Head(toks) = "*" THEN LStripStars(Tail(toks)) ELSE toks
\* line.strip('*').strip()
StripStars(toks) == LStripStars(RStripStars(toks))

\* Lines 311 and 320: the two epigraph forms.
EpigraphMatch(line) ==
    \/ Len(line) >= 2 /\ line[1] = "*" /\ line[2] = Quote
    \/ line # <<>> /\ line[1] = Quote /\ line[Len(line)] = "*"
QuotedDashMatch(line) ==
    line # <<>> /\ line[1] = Quote /\ \E k \in 1..Len(line) : line[k] = EmDash

\* `^(\d+)\.\s+(.*)` and `^([A-Z])\.\s+(.*)` with len(line) > 5.
TokenChars(tok) == IF tok \in NumberedMarkers \cup LetteredMarkers THEN 2 ELSE 1
RECURSIVE LineChars(_)
\* len(line) for a line of a list marker and one-letter words.
LineChars(line) ==
    IF line = <<>> THEN 0
    ELSE IF Len(line) = 1 THEN TokenChars(line[1])
    ELSE TokenChars(Head(line)) + 1 + LineChars(Tail(line))
NumberedMatch(line) == Len(line) >= 2 /\ line[1] \in NumberedMarkers
LetteredMatch(line) ==
    Len(line) >= 2 /\ line[1] \in LetteredMarkers /\ LineChars(line) > 5

\* Line 356: a line within single "*".
ItalicMatch(line) ==
    line # <<>> /\ line[1] = "*" /\ line[Len(line)] = "*" /\ ~StartsBold(line)

\* The lines that end the continuation of a bold-label paragraph (line 302),
\* of a numbered item (line 331) and of a lettered item (line 346).
StopsLabel(line) ==
    \/ line = <<>> \/ StartsHash(line) \/ StartsBold(line)
    \/ line[1] = "====" \/ line[1] \in NumberedMarkers
StopsNumbered(line) ==
    \/ line = <<>> \/ line[1] \in NumberedMarkers \/ StartsHash(line) \/ StartsBold(line)
StopsLettered(line) ==
    \/ line = <<>> \/ line[1] \in LetteredMarkers \/ StartsHash(line) \/ StartsBold(line)

\* Faulty variant of StopsParagraph: a '---' rule does not end a paragraph.
StopsParagraphNoRule(line) ==
    \/ line = <<>>
    \/ StartsHash(line)
    \/ line[1] = "===="
    \/ StartsBold(line)
    \/ Len(line) >= 2 /\ line[1] \in NumberedMarkers \cup LetteredMarkers
    \/ Len(line) >= 2 /\ line[1] = "*" /\ line[2] = Quote

\* Lines 373-379: a line that ends the paragraph begun before it.
StopsParagraph(line) ==
    \/ line = <<>>
    \/ StartsHash(line)
    \/ line[1] \in {"====", "---"}
    \/ StartsBold(line)
    \/ Len(line) >= 2 /\ line[1] \in NumberedMarkers \cup LetteredMarkers
    \/ Len(line) >= 2 /\ line[1] = "*" /\ line[2] = Quote

\* Faulty variant of LabelEnd: the scan ends on the label line itself.
LabelEndStuck(lines, j) == j - 1

RECURSIVE LabelEnd(_, _)
RECURSIVE NumberedEnd(_, _)
RECURSIVE LetteredEnd(_, _)
RECURSIVE ParagraphEnd(_, _)
\* The index j at which each continuation loop stops.
LabelEnd(lines, j) ==
    IF j >= Len(lines) \/ StopsLabel(lines[j + 1]) THEN j ELSE LabelEnd(lines, j + 1)
NumberedEnd(lines, j) ==
    IF j >= Len(lines) \/ StopsNumbered(lines[j + 1]) THEN j
    ELSE NumberedEnd(lines, j + 1)
LetteredEnd(lines, j) ==
    IF j >= Len(lines) \/ StopsLettered(lines[j + 1]) THEN j
    ELSE LetteredEnd(lines, j + 1)
ParagraphEnd(lines, j) ==
    IF j >= Len(lines) \/ StopsParagraph(lines[j + 1]) THEN j
    ELSE ParagraphEnd(lines, j + 1)

\* Faulty variant of JoinLines: the continuation lines are left out.
JoinLinesFirst(para_lines) == IF para_lines = <<>> THEN <<>> ELSE Head(para_lines)

RECURSIVE JoinLines(_)
\* ' '.join(para_lines)
JoinLines(para_lines) ==
    IF para_lines = <<>> THEN <<>> ELSE Head(para_lines) \o JoinLines(Tail(para_lines))

RECURSIVE SubBold(_)
\* re.sub(r'\*\*([^*]+)\*\*', r'\1', full)
SubBold(toks) ==
    IF toks = <<>> THEN <<>>
    ELSE IF BoldClose(toks) > 0
    THEN BoldInner(toks) \o SubBold(BoldRest(toks))
    ELSE <<Head(toks)>> \o SubBold(Tail(toks))

RECURSIVE SubItalic(_)
\* re.sub(r'\*([^*]+)\*', r'\1', full)
SubItalic(toks) ==
    IF toks = <<>> THEN <<>>
    ELSE IF toks[1] = "*" /\ NonStarEnd(toks, 2) > 2 /\ NonStarEnd(toks, 2) <= Len(toks)
    THEN SubSeq(toks, 2, NonStarEnd(toks, 2) - 1)
         \o SubItalic(SubSeq(toks, NonStarEnd(toks, 2) + 1, Len(toks)))
    ELSE <<Head(toks)>> \o SubItalic(Tail(toks))

\* add_section, add_subsection, add_epigraph, add_numbered, add_indented,
\* add_italic_paragraph: one element of that kind.
TextElement(kind, text, at) == [kind |-> kind, text |-> text, at |-> at]
add_element(b, kind, text, at) ==
    [b EXCEPT !.elements = Append(@, TextElement(kind, text, at))]

\* One iteration of `while i < len(lines)`, for call number `call`: the
\* builder after it and the new value of i.  The branch of lines 229-246 is
\* never taken (the pattern of line 210 matches every line that its pattern
\* matches), nor is that of lines 362-365 (a stripped line starts with no
\* space).
RenderStep(b, lines, i, call) ==
    LET line == lines[i + 1]
        at == <<call, i>>
    IN IF Skipped(line) \/ MetaCommentary(line) THEN [b |-> b, i |-> i + 1]
       ELSE IF ChapterMatch(line)
       THEN LET label == <<"Chapter", ChapterNumber(line)>>
                j == NextTitleLine(lines, i + 1)
            IN IF ChapterTitle(line) # <<>>
               THEN [b |-> add_chapter(b, label, ChapterTitle(line), at), i |-> i + 1]
               ELSE IF j >= 0
               THEN [b |-> add_chapter(b, label, lines[j + 1], at), i |-> j + 1]
               ELSE [b |-> add_chapter(b, label, <<>>, at), i |-> i + 1]
       ELSE IF EpilogueMatch(line)
       THEN LET title == StripHash(line)
            IN IF FirstIndex(title, ":", 1) > 0
               THEN [b |-> add_chapter(b, Before(title, ":"), After(title, ":"), at),
                     i |-> i + 1]
               ELSE IF FirstIndex(title, EmDash, 1) > 0
               THEN [b |-> add_chapter(b, Before(title, EmDash), After(title, EmDash), at),
                     i |-> i + 1]
               ELSE [b |-> add_chapter(b, <<>>, title, at), i |-> i + 1]
       ELSE IF AppendixMatch(line)
       THEN [b |-> add_chapter(b, <<"Appendix", StripHash(line)[2]>>,
                               AppendixTitle(line), at),
             i |-> i + 1]
       ELSE IF BibliographyMatch(line)
       THEN [b |-> add_chapter(b, <<>>, StripHash(line), at), i |-> i + 1]
       ELSE IF SectionMatch(line)
       THEN [b |-> add_element(b, "section", Tail(line), at), i |-> i + 1]
       ELSE IF BoldSectionMatch(line)
       THEN [b |-> add_element(b, "subsection", BoldInner(line), at), i |-> i + 1]
       ELSE IF BoldParaMatch(line)
       THEN LET j == LabelEnd(lines, i + 1)
            IN [b |-> add_paragraph(b, BoldInner(line) \o <<":">> \o BoldRest(line)
                                       \o JoinLines(SubSeq(lines, i + 2, j)), at),
                i |-> j]
       ELSE IF EpigraphMatch(line)
       THEN IF i + 1 < Len(lines) /\ lines[i + 2] # <<>> /\ lines[i + 2][1] = EmDash
            THEN [b |-> add_element(b, "epigraph", StripStars(line) \o lines[i + 2], at),
                  i |-> i + 2]
            ELSE [b |-> add_element(b, "epigraph", StripStars(line), at), i |-> i + 1]
       ELSE IF QuotedDashMatch(line)
       THEN [b |-> add_element(b, "epigraph", line, at), i |-> i + 1]
       ELSE IF NumberedMatch(line)
       THEN LET j == NumberedEnd(lines, i + 1)
            IN [b |-> add_element(b, "numbered", JoinLines(SubSeq(lines, i + 1, j)), at),
                i |-> j]
       ELSE IF LetteredMatch(line)
       THEN LET j == LetteredEnd(lines, i + 1)
            IN [b |-> add_element(b, "indented", JoinLines(SubSeq(lines, i + 1, j)), at),
                i |-> j]
       ELSE IF ItalicMatch(line)
       THEN [b |-> add_element(b, "italic", StripStars(line), at), i |-> i + 1]
       ELSE LET j == ParagraphEnd(lines, i + 1)
                full == SubItalic(SubBold(JoinLines(SubSeq(lines, i + 1, j))))
            IN [b |-> IF full # <<>> THEN add_paragraph(b, full, at) ELSE b,
                i |-> j]

\* builder.render_translated_text(text) is called: lines 194-195.
RenderTranslatedText ==
    /\ rpc = "idle"
    /\ \E text \in RenderTexts(MaxRenderLines - TotalLines(rendered)) :
         rendered' = Append(rendered, text)
    /\ rpos' = 0
    /\ rpc' = "loop"
    /\ visited' = <<>>
    /\ UNCHANGED <<last_chapter, chapters, elements, chapter_log, tvars, cvars, bvars>>

\* One iteration of the loop of line 197.
RenderLine ==
    /\ rpc = "loop"
    /\ rpos < Len(rendered[Len(rendered)])
    /\ LET r == RenderStep(Builder, rendered[Len(rendered)], rpos, Len(rendered))
       IN /\ rpos' = r.i
          /\ last_chapter' = r.b.last_chapter
          /\ chapters' = r.b.chapters
          /\ elements' = r.b.elements
          /\ chapter_log' = r.b.chapter_log
    /\ visited' = Append(visited, rpos)
    /\ UNCHANGED <<rendered, rpc, tvars, cvars, bvars>>

\* `while i < len(lines)` is false: render_translated_text returns.
RenderReturn ==
    /\ rpc = "loop"
    /\ rpos >= Len(rendered[Len(rendered)])
    /\ rpc' = "idle"
    /\ UNCHANGED <<rendered, rpos, last_chapter, chapters, elements, chapter_log,
                   visited, tvars, cvars, bvars>>

InitRender == InitChunk

NextRender ==
    \/ RenderTranslatedText
    \/ RenderLine
    \/ RenderReturn

SpecRender == InitRender /\ [][NextRender]_vars

\* ---- one call of render_translated_text, on lines of every kind ----

MaxParseLines == 3

ParseLineSet ==
    {Blank, <<"====">>, <<"---">>, <<"Let", "me", "w">>,
     <<"Chapter", "3">>, <<"Chapter", "3", ":", "T">>, <<"Epilogue", ":", "T">>,
     <<"Appendix", "A", ":", "T">>, <<"Bibliography">>, <<"##", "T">>,
     <<"*", "*", "T", "*", "*">>, <<"*", "*", "Label", ":", "*", "*", "value">>,
     <<"*", Quote, "w", Quote, "*">>, <<EmDash, "A">>, <<"1.", "w">>,
     <<"A.", "w", "w">>, <<"*", "w", "*">>, <<"w">>,
     <<"w", "*", "*", "x", "*", "*", "*", "y", "*">>}

ParseTexts == UNION {[1..m -> ParseLineSet] : m \in 1..MaxParseLines}

\* builder.render_translated_text(text) on a new builder.
RenderSingleText ==
    /\ rpc = "idle"
    /\ rendered = <<>>
    /\ \E text \in ParseTexts : rendered' = <<text>>
    /\ rpos' = 0
    /\ rpc' = "loop"
    /\ visited' = <<>>
    /\ UNCHANGED <<last_chapter, chapters, elements, chapter_log, tvars, cvars, bvars>>

InitParse == InitChunk

NextParse ==
    \/ RenderSingleText
    \/ RenderLine
    \/ RenderReturn

SpecParse == InitParse /\ [][NextParse]_vars

(***************************************************************************)
(* Properties of translate_chunks (checked under Spec).                    *)
(***************************************************************************)
Launched == main # "idle"
InFlight == {p \in Tasks : pc[p] = "calling"}
Resolved == {p \in Tasks : pc[p] = "done"}
Slot(p) == results[chunks[p].index]

\* The result a task's own remote calls determine: the outcome of its latest
\* call decides it.
OwnResult(p) ==
    IF last[p].kind = "ok"
    THEN TranslationResult(chunks[p].index, chunks[p].text, last[p].val, TRUE, "")
    ELSE IF last[p].kind = "rate_limit"
    THEN TranslationResult(chunks[p].index, chunks[p].text, "", FALSE,
                           "Rate limited after retries")
    ELSE TranslationResult(chunks[p].index, chunks[p].text, "", FALSE, last[p].val)

\* C1: in every reachable state of translate_chunks the number of remote
\* translation calls in flight is at most max_concurrent.
C1_InFlightBounded == Launched => Cardinality(InFlight) <= max_concurrent

\* C1 witness: every slot is busy with a remote call while another chunk waits.
C1_Witness ==
    /\ Launched
    /\ Cardinality(InFlight) = max_concurrent
    /\ \E p \in Tasks : pc[p] = "waiting"

\* C2: when translate_chunks returns, the result list has one slot per chunk,
\* no slot is empty, and slot i holds the result of chunk i (chunk_index = i,
\* original_text = chunk i's text), whatever the completion order.
C2_ResultsAddressable ==
    main = "returned" =>
        /\ DOMAIN results = 0..(Len(chunks) - 1)
        /\ \A p \in Tasks :
             /\ results[p - 1] # None
             /\ results[p - 1].chunk_index = p - 1
             /\ results[p - 1].original_text = chunks[p].text

\* C2 witness: a returned run whose first completed chunk was not chunk 0.
C2_Witness ==
    /\ main = "returned"
    /\ on_progress
    /\ Len(chunks) >= 2
    /\ progress[1][3] # 0

\* C3: translate_chunks returns only after every launched task has resolved,
\* with a successful result or a failed one after max_retries + 1 calls; no
\* task is awaiting a response or a backoff delay at or after the return.
C3_ReturnAfterAllResolved ==
    main = "returned" =>
        \A p \in Tasks :
            /\ pc[p] = "done"
            /\ delay[p] = 0
            /\ Slot(p) # None
            /\ Slot(p).success \/ calls[p] = max_retries + 1

\* C3 witness: a returned run with a successful and a failed chunk.
C3_Witness ==
    /\ main = "returned"
    /\ \E p, q \in Tasks : Slot(p).success /\ ~Slot(q).success

\* C4: a chunk that ultimately fails neither blocks nor cancels another chunk:
\* every resolved chunk's result is the one its own remote calls determine,
\* a chunk waits for admission only while some admitted chunk is still
\* unresolved, and translate_chunks is never ended by an exception.
C4_FailureIsolated ==
    Launched =>
        /\ \A p \in Resolved : Slot(p) = OwnResult(p)
        /\ (\E p \in Tasks : pc[p] = "waiting")
              => \E q \in Tasks : pc[q] \in {"calling", "sleeping", "woken"}
        /\ main \in {"gather", "returned"}

\* C4 witness: a chunk that had to wait was translated although another
\* chunk has failed.
C4_Witness ==
    /\ Launched
    /\ max_concurrent = 1
    /\ \E p, q \in Resolved :
         /\ p < q
         /\ ~Slot(p).success
         /\ Slot(q).success

\* C5: a chunk whose every attempt raised a rate-limit failure makes
\* max_retries + 1 calls in all, sleeps 5 * k before retry k, and ends with a
\* failed result (empty translated_text, the rate-limit error).
C5_RateLimitRetries ==
    \A p \in Tasks :
        kinds[p] = {"rate_limit"} /\ last[p].kind = "rate_limit" =>
            /\ calls[p] <= max_retries + 1
            /\ pc[p] \in {"sleeping", "calling", "done"}
            /\ pc[p] = "sleeping" => delay[p] = 5 * calls[p] /\ calls[p] <= max_retries
            /\ pc[p] = "calling" => calls[p] = attempt[p] + 1 /\ attempt[p] >= 1
            /\ pc[p] = "done" =>
                 /\ calls[p] = max_retries + 1
                 /\ Slot(p) = TranslationResult(chunks[p].index, chunks[p].text, "",
                                                FALSE, "Rate limited after retries")

\* C5 witness: a chunk is in its third backoff after three rate-limit failures.
C5_Witness ==
    \E p \in Tasks :
        /\ kinds[p] = {"rate_limit"}
        /\ pc[p] = "sleeping"
        /\ calls[p] = 3

\* C6: a chunk whose every attempt raised a failure other than a rate limit
\* makes max_retries + 1 calls in all, sleeps 2 before each retry, and ends
\* with a failed result (empty translated_text, error = the last failure's
\* description).
C6_ErrorRetries ==
    \A p \in Tasks :
        kinds[p] = {"error"} /\ last[p].kind = "error" =>
            /\ calls[p] <= max_retries + 1
            /\ pc[p] \in {"sleeping", "calling", "done"}
            /\ pc[p] = "sleeping" => delay[p] = 2 /\ calls[p] <= max_retries
            /\ pc[p] = "calling" => calls[p] = attempt[p] + 1 /\ attempt[p] >= 1
            /\ pc[p] = "done" =>
                 /\ calls[p] = max_retries + 1
                 /\ last[p].val \in Errors
                 /\ Slot(p) = TranslationResult(chunks[p].index, chunks[p].text, "",
                                                FALSE, last[p].val)

\* C6 witness: a chunk has failed for good on an authentication failure after
\* at least one retry.
C6_Witness ==
    \E p \in Tasks :
        /\ kinds[p] = {"error"}
        /\ pc[p] = "done"
        /\ calls[p] >= 2
        /\ Slot(p).error = "authentication"

\* C7: with max_retries = 2, a chunk whose first call was rate limited and
\* whose second call succeeded has a successful result carrying the second
\* call's text after exactly two calls, and every other resolved chunk has
\* the result its own calls determine.
C7_RetryThenSuccess ==
    \A p \in Tasks :
        /\ max_retries = 2
        /\ kinds[p] = {"rate_limit"}
        /\ attempt[p] = 1
        /\ last[p].kind = "ok"
        => /\ pc[p] = "done"
           /\ calls[p] = 2
           /\ Slot(p) = TranslationResult(chunks[p].index, chunks[p].text, last[p].val,
                                          TRUE, "")
           /\ last[p].val \in Translations
           /\ \A q \in Resolved \ {p} : Slot(q) = OwnResult(q)

\* C7 witness: such a chunk, next to another chunk that was never rate limited
\* and is resolved as well.
C7_Witness ==
    \E p, q \in Resolved :
        /\ max_retries = 2
        /\ p # q
        /\ kinds[p] = {"rate_limit"}
        /\ attempt[p] = 1
        /\ last[p].kind = "ok"
        /\ kinds[q] = {}

\* C8: with an observer, it is invoked exactly once per chunk, after the chunk
\* resolved, with (completed, total, chunk_index); the k-th invocation has
\* completed = k and total = len(chunks), and completed = total is reported
\* once, when every chunk has resolved.
C8_ProgressReports ==
    Launched /\ on_progress =>
        /\ Len(progress) = Cardinality(Resolved)
        /\ \A k \in 1..Len(progress) :
             /\ progress[k][1] = k
             /\ progress[k][2] = Len(chunks)
             /\ \E p \in Resolved : chunks[p].index = progress[k][3]
             /\ progress[k][1] = Len(chunks) => k = Len(progress) /\ Resolved = Tasks
        /\ \A p \in Resolved :
             Cardinality({k \in 1..Len(progress) : progress[k][3] = chunks[p].index}) = 1
        /\ \A p \in Tasks \ Resolved :
             \A k \in 1..Len(progress) : progress[k][3] # chunks[p].index

\* C8 witness: the observer has been told of the last of three chunks, one of
\* them failed.
C8_Witness ==
    /\ Launched
    /\ on_progress
    /\ Len(chunks) = 3
    /\ Len(progress) = 3
    /\ \E p \in Tasks : ~Slot(p).success

(***************************************************************************)
(* Properties of chunk_text (checked under SpecChunk).                     *)
(***************************************************************************)
PageNums == {pages[i].page_num : i \in 1..Len(pages)}
Covers(c, n) == c.start_page <= n /\ n <= c.end_page

\* C9: for a non-empty page list (contiguous page numbers, target_words >= 1)
\* chunk_text returns, and every page number lies within [start_page,
\* end_page] of at least one returned chunk.
C9_NoPageDropped ==
    pages # <<>> =>
        /\ cpc # "raised"
        /\ cpc = "returned" =>
             \A n \in PageNums : \E k \in 1..Len(out) : Covers(out[k], n)

\* C9 witness: chunk_text has returned the chunks of three pages in two
\* sections, one of them split into sub-chunks.
C9_Witness ==
    /\ cpc = "returned"
    /\ Len(pages) = 3
    /\ Len(sections) = 2
    /\ Len(out) > 2

\* C10: the chunk at position i of the list chunk_text builds has index i
\* (0-based), whatever the number of sections and of sub-chunks per section.
C10_DenseIndex ==
    cpc \in {"sections", "returned"} =>
        \A k \in 1..Len(out) : out[k].index = k - 1

\* C10 witness: a returned list of at least three chunks from two sections,
\* the second section split into sub-chunks.
C10_Witness ==
    /\ cpc = "returned"
    /\ Len(sections) = 2
    /\ Len(out) >= 3
    /\ out[2].start_page # out[1].start_page

\* The sections chunk_text has gone through, their text, and the chunks
\* emitted for a section (those that start on the section's first page).
Processed == 1..si
SectionText(sec) == JoinTexts(PageTextsOf(sec.pages))
ChunksOf(sec) == SelectSeq(out, LAMBDA c : c.start_page = sec.start_page)

RECURSIVE SumWords(_)
SumWords(texts) ==
    IF texts = <<>> THEN 0 ELSE WordCount(Head(texts)) + SumWords(Tail(texts))

RECURSIVE AllParagraphs(_)
\* The paragraphs of the chunks cs, in order.
AllParagraphs(cs) ==
    IF cs = <<>> THEN <<>> ELSE Paragraphs(Head(cs).text) \o AllParagraphs(Tail(cs))

TextsOf(cs) == [k \in 1..Len(cs) |-> cs[k].text]
PagesWithin(c) == SelectSeq(pages, LAMBDA pg : Covers(c, pg.page_num))

\* C11: for every page p on which a chapter break is detected, some chunk has
\* start_page = p, no chunk's page range holds both p and a page before p,
\* and the chunks of a page range hold the words of the pages of that range.
C11_BreakStartsChunk ==
    cpc = "returned" /\ pages # <<>> =>
        /\ \A b \in 1..Len(breaks) :
             /\ \E k \in 1..Len(out) : out[k].start_page = breaks[b].page_num
             /\ \A k \in 1..Len(out) :
                  ~(out[k].start_page < breaks[b].page_num
                    /\ breaks[b].page_num <= out[k].end_page)
        /\ \A k \in 1..Len(out) :
             SumWords(TextsOf(SelectSeq(out, LAMBDA c : c.start_page = out[k].start_page)))
               = SumWords(PageTextsOf(PagesWithin(out[k])))

\* C11 witness: a break detected on page 2 of a returned three-page run.
C11_Witness ==
    /\ cpc = "returned"
    /\ Len(pages) = 3
    /\ \E b \in 1..Len(breaks) : breaks[b].page_num = 2

\* C12: the paragraphs (blank-line delimited) of a section's text are, whole
\* and in order, the paragraphs of the section's chunks; a section whose text
\* has no blank-line split point yields exactly one chunk.
C12_ParagraphsWhole ==
    \A k \in Processed :
        /\ AllParagraphs(ChunksOf(sections[k])) = Paragraphs(SectionText(sections[k]))
        /\ Len(Paragraphs(SectionText(sections[k]))) = 1 => Len(ChunksOf(sections[k])) = 1

\* C12 witness: a one-paragraph section of two lines, over 1.3 * target_words,
\* was emitted as one chunk.
C12_Witness ==
    \E k \in Processed :
        /\ Len(Paragraphs(SectionText(sections[k]))) = 1
        /\ Len(SectionText(sections[k])) >= 2
        /\ ~FitsWhole(WordCount(SectionText(sections[k])), target_words)
        /\ Len(ChunksOf(sections[k])) = 1

\* C13: for every section that carries a chapter label, the first chunk
\* emitted for it has that label and every later chunk of the section has an
\* empty label, whether the section is emitted whole or split.
C13_LabelOnFirstChunk ==
    \A k \in Processed :
        sections[k].chapter_label # <<>> =>
            /\ ChunksOf(sections[k])[1].chapter_label = sections[k].chapter_label
            /\ \A j \in 2..Len(ChunksOf(sections[k])) :
                 ChunksOf(sections[k])[j].chapter_label = <<>>

\* C14 as stated: every chunk has word_count at most 1.3 * target_words.
C14_AtMostThirtyPercentOver ==
    \A k \in 1..Len(out) : 10 * out[k].word_count <= 13 * target_words

\* C14 amended: every chunk that holds two or more paragraphs has word_count
\* at most 1.3 * target_words; only a chunk that is one single paragraph may
\* exceed it.
C14_OverOnlyInOneParagraph ==
    \A k \in 1..Len(out) :
        \/ 10 * out[k].word_count <= 13 * target_words
        \/ Len(Paragraphs(out[k].text)) = 1

\* C14 witness: a split section returned a chunk of one paragraph above
\* 1.3 * target_words.
C14_Witness ==
    /\ cpc = "returned"
    /\ Len(out) >= 2
    /\ \E k \in 1..Len(out) :
         /\ 10 * out[k].word_count > 13 * target_words
         /\ Len(Paragraphs(out[k].text)) = 1

\* C15: chunk_text called with an empty page list returns an empty chunk list
\* and raises no error.
C15_EmptyInput ==
    cpc # "idle" /\ pages = <<>> =>
        /\ cpc # "raised"
        /\ cpc = "returned" => out = <<>>

\* C16: a section (of at least one page) whose pages hold no word yields
\* exactly one chunk, with word_count 0 and the section's first and last page
\* as start_page and end_page.
C16_EmptySectionKept ==
    \A k \in Processed :
        WordCount(SectionText(sections[k])) = 0 =>
            /\ Len(ChunksOf(sections[k])) = 1
            /\ ChunksOf(sections[k])[1].word_count = 0
            /\ ChunksOf(sections[k])[1].start_page = sections[k].pages[1].page_num
            /\ ChunksOf(sections[k])[1].end_page
                 = sections[k].pages[Len(sections[k].pages)].page_num

\* C16 witness: a section of two pages without a word has been processed.
C16_Witness ==
    \E k \in Processed :
        /\ WordCount(SectionText(sections[k])) = 0
        /\ Len(sections[k].pages) = 2
        /\ Len(ChunksOf(sections[k])) = 1

\* The operations of the layout that insert an image or render a text.
ImageOps == {a \in 1..Len(layout) : layout[a].op = "image"}
TextOps == {a \in 1..Len(layout) : layout[a].op = "text"}
Succeeded == {k \in 1..Len(bresults) : bresults[k].success}

\* C17: an image is inserted for a chunk whose page range contains the
\* image's page and for no other chunk: every image is inserted at most once.
C17_ImageOnce ==
    /\ \A a \in ImageOps :
         Covers(bchunks[layout[a].chunk_index + 1], images[layout[a].image].page_num)
    /\ \A a, b \in ImageOps : layout[a].image = layout[b].image => a = b

\* C18: no text and no image of a failed result is rendered, a failed result
\* never ends the reconstruction, and once the reconstruction has ended every
\* successful chunk has been rendered.
C18_PartialSuccess ==
    /\ \A a \in ImageOps \cup TextOps : bresults[layout[a].chunk_index + 1].success
    /\ bpc = "raised" => bresults[ri].success
    /\ bpc \in {"done", "raised"} =>
         \A k \in Succeeded :
             \E a \in TextOps : layout[a].chunk_index = bresults[k].chunk_index

\* C19: the title page comes first and once; then the content of the
\* successful chunks in increasing chunk_index order, each successful chunk's
\* text being there when the loop is over; within a chunk every image
\* insertion precedes the text.
C19_LayoutOrder ==
    /\ bpc # "idle" => layout # <<>> /\ layout[1] = TitleOp
    /\ \A a \in 2..Len(layout) : layout[a].op # "title"
    /\ \A a, b \in 2..Len(layout) :
         a < b =>
            /\ layout[a].chunk_index <= layout[b].chunk_index
            /\ layout[a].chunk_index = layout[b].chunk_index
                 => ~(layout[a].op = "text" /\ layout[b].op = "image")
            /\ layout[a].op = "text" /\ layout[b].op = "text"
                 => layout[a].chunk_index < layout[b].chunk_index
    /\ \A a \in 2..Len(layout) : bresults[layout[a].chunk_index + 1].success
    /\ bpc = "done" =>
         \A k \in Succeeded :
             \E a \in TextOps : layout[a].chunk_index = bresults[k].chunk_index

\* C19 witness: a finished reconstruction with two rendered chunks around a
\* failed one, one of them with an image.
C19_Witness ==
    /\ bpc = "done"
    /\ Len(bresults) = 3
    /\ bresults[1].success /\ ~bresults[2].success /\ bresults[3].success
    /\ ImageOps # {}
    /\ \E a \in TextOps : layout[a].chunk_index = 2

\* The calls of add_chapter that emitted a chapter element before call k.
EmittedBefore(k) == {j \in 1..(k - 1) : chapter_log[j].emitted}
LastEmittedBefore(k) ==
    CHOOSE j \in EmittedBefore(k) : \A m \in EmittedBefore(k) : m <= j
CallsOf(n) == {k \in 1..Len(chapter_log) : chapter_log[k].at[1] = n}

\* Two consecutive texts that start with the same chapter heading and title,
\* the first holding no other heading, give one chapter element: the heading
\* of the second emits nothing.
SameHeadingOnce ==
    \A k \in 2..Len(chapter_log) :
        /\ chapter_log[k].at[2] = 0
        /\ chapter_log[k - 1].at = <<chapter_log[k].at[1] - 1, 0>>
        /\ chapter_log[k - 1].label = chapter_log[k].label
        /\ chapter_log[k - 1].title = chapter_log[k].title
        => ~chapter_log[k].emitted

\* C20: add_chapter(label, title) emits a chapter element iff (label, title)
\* differs from the label and title of the chapter emitted last before it;
\* the state persists across render_translated_text calls, so that the same
\* heading at the start of two consecutive texts gives one chapter element.
C20_ChapterIffDiffers ==
    /\ \A k \in 1..Len(chapter_log) :
         chapter_log[k].emitted <=>
            \/ EmittedBefore(k) = {}
            \/ <<chapter_log[LastEmittedBefore(k)].label,
                 chapter_log[LastEmittedBefore(k)].title>>
                 # <<chapter_log[k].label, chapter_log[k].title>>
    /\ SameHeadingOnce

\* C22: an image that add_image cannot decode is skipped, the failure being
\* caught for that image only: the reconstruction never ends with the
\* exception, and when it has ended the text of every successful chunk has
\* been rendered.
C22_ImageFailureSkipped ==
    /\ bpc # "raised"
    /\ bpc = "done" =>
         \A k \in Succeeded :
             \E a \in TextOps : layout[a].chunk_index = bresults[k].chunk_index

\* The first CheckedLines lines of a page, and the position among them of the
\* first line that matches a chapter pattern (0: none).
CheckedPart(page) == SubSeq(page.text, 1, Min(Len(page.text), CheckedLines))
FirstHeading(page) ==
    IF \E k \in 1..Len(CheckedPart(page)) : MatchesChapter(page.text[k])
    THEN CHOOSE k \in 1..Len(CheckedPart(page)) :
            /\ MatchesChapter(page.text[k])
            /\ \A j \in 1..(k - 1) : ~MatchesChapter(page.text[j])
    ELSE 0
BreaksOf(n) == {b \in 1..Len(breaks) : breaks[b].page_num = n}

\* C23: _detect_chapter_breaks records at most one break per page, for the
\* first line among the page's first 10 that starts with a chapter pattern in
\* any letter case, and none for a page without such a line; the breaks are in
\* increasing page order; a label has at most 80 characters and is the start
\* of its heading line.
C23_OneBreakPerPage ==
    cpc = "detected" =>
        /\ \A a, b \in 1..Len(breaks) : a < b => breaks[a].page_num < breaks[b].page_num
        /\ \A i \in 1..Len(pages) :
             IF FirstHeading(pages[i]) = 0
             THEN BreaksOf(pages[i].page_num) = {}
             ELSE /\ Cardinality(BreaksOf(pages[i].page_num)) = 1
                  /\ \A b \in BreaksOf(pages[i].page_num) :
                       /\ CharLen(breaks[b].label) <= 80
                       /\ Len(breaks[b].label) <= Len(pages[i].text[FirstHeading(pages[i])])
                       /\ breaks[b].label
                            = SubSeq(pages[i].text[FirstHeading(pages[i])], 1,
                                     Len(breaks[b].label))
                       /\ CharLen(pages[i].text[FirstHeading(pages[i])]) <= 80
                            => breaks[b].label = pages[i].text[FirstHeading(pages[i])]

\* C23 witness: of two pages, one has on its tenth line a heading of more than
\* 80 characters, cut to a label of at most 80, and a second heading after it;
\* the other has its only heading on the eleventh line and gets no break.
C23_Witness ==
    /\ cpc = "detected"
    /\ Len(pages) = 2
    /\ Len(breaks) = 1
    /\ \E i, j \in 1..2 :
         /\ pages[i].text = Blanks(9) \o <<LongHeading, <<"CHAPTER", "1">>>>
         /\ breaks[1].page_num = i
         /\ CharLen(breaks[1].label) > 70
         /\ Len(breaks[1].label) < Len(LongHeading)
         /\ pages[j].text = Blanks(10) \o <<LongHeading>>

RECURSIVE CountBefore(_)
\* The number of chunks the sections before section k gave, and the chunks
\* section k gave, by position in the returned list.
CountBefore(k) ==
    IF k = 1 THEN 0
    ELSE CountBefore(k - 1) + Len(split_section(sections[k - 1], target_words))
EmittedFor(k) ==
    SubSeq(out, CountBefore(k) + 1,
           CountBefore(k) + Len(split_section(sections[k], target_words)))
\* The section that gave the chunk at position i.
SectionAt(i) == CHOOSE k \in Processed : CountBefore(k) < i /\ i <= CountBefore(k + 1)
IsSplit(sec) == ~FitsWhole(WordCount(SectionText(sec)), target_words)

\* C25: every chunk emitted for a section, whole or split, starts on the
\* section's first page and ends on its last page.
C25_SectionRange ==
    \A k \in Processed :
        \A m \in 1..Len(EmittedFor(k)) :
            /\ EmittedFor(k)[m].start_page = sections[k].pages[1].page_num
            /\ EmittedFor(k)[m].end_page
                 = sections[k].pages[Len(sections[k].pages)].page_num

\* C25 witness: a section of two pages was split into two chunks or more.
C25_Witness ==
    \E k \in Processed :
        /\ Len(sections[k].pages) >= 2
        /\ Len(EmittedFor(k)) >= 2
        /\ Len(sections) >= 2

\* C26: in a section of more than 1.3 * target_words words, a sub-chunk of
\* two or more paragraphs has at most target_words words, and every sub-chunk
\* but the last, together with the paragraph that follows it, has more than
\* target_words words; a sub-chunk is never without a paragraph.
C26_GreedyGroups ==
    \A k \in Processed :
        IsSplit(sections[k]) =>
            \A m \in 1..Len(EmittedFor(k)) :
                /\ Len(Paragraphs(EmittedFor(k)[m].text)) >= 1
                /\ Len(Paragraphs(EmittedFor(k)[m].text)) >= 2
                     => EmittedFor(k)[m].word_count <= target_words
                /\ m < Len(EmittedFor(k))
                     => EmittedFor(k)[m].word_count
                          + WordCount(Paragraphs(EmittedFor(k)[m + 1].text)[1])
                          > target_words

\* C26 witness: a split section gave a sub-chunk of two paragraphs that has
\* exactly target_words words, followed by another sub-chunk.
C26_Witness ==
    \E k \in Processed :
        /\ IsSplit(sections[k])
        /\ Len(EmittedFor(k)) >= 2
        /\ Len(Paragraphs(EmittedFor(k)[1].text)) = 2
        /\ EmittedFor(k)[1].word_count = target_words

\* C28: every returned chunk has start_page <= end_page, and start_page never
\* decreases along the list and increases from one section to the next.
C28_PageOrder ==
    /\ \A i \in 1..Len(out) : out[i].start_page <= out[i].end_page
    /\ \A i, j \in 1..Len(out) :
         i < j =>
            /\ out[i].start_page <= out[j].start_page
            /\ SectionAt(i) # SectionAt(j) => out[i].start_page < out[j].start_page

\* C28 witness: three chunks returned, two of one section of two pages and
\* one of the next section.
C28_Witness ==
    /\ cpc = "returned"
    /\ Len(out) = 3
    /\ SectionAt(1) = SectionAt(2)
    /\ SectionAt(2) # SectionAt(3)
    /\ out[1].start_page < out[1].end_page

\* C29: whatever the mix of failures, a chunk makes at most max_retries + 1
\* remote calls (call k in attempt k - 1), a call that returns is the last
\* one and gives the successful result, a task that has ended has stored a
\* TranslationResult, and a failed result comes after max_retries + 1 calls
\* with the error of the last failure alone.
C29_OneAttemptBudget ==
    \A p \in Tasks :
        /\ calls[p] <= max_retries + 1
        /\ attempt[p] <= max_retries
        /\ pc[p] \in {"calling", "sleeping", "done"} => calls[p] = attempt[p] + 1
        /\ last[p].kind = "ok" =>
             /\ pc[p] = "done"
             /\ Slot(p) = TranslationResult(chunks[p].index, chunks[p].text,
                                            last[p].val, TRUE, "")
        /\ pc[p] = "done" =>
             /\ Slot(p) # None
             /\ ~Slot(p).success =>
                  /\ calls[p] = max_retries + 1
                  /\ Slot(p).translated_text = ""
                  /\ Slot(p).error = IF last[p].kind = "rate_limit"
                                     THEN "Rate limited after retries"
                                     ELSE last[p].val
                  /\ last[p].kind \in {"rate_limit", "error"}

\* C29 witness: a chunk failed for good on a rate limit after an earlier
\* failure of another kind, and another chunk succeeded after failures of
\* both kinds.
C29_Witness ==
    \E p \in Tasks :
        /\ kinds[p] = {"rate_limit", "error"}
        /\ pc[p] = "done"
        /\ calls[p] = 3
        /\ max_retries = 2
        /\ Slot(p).error = "Rate limited after retries"

\* The chunks that hold a slot: admitted and not yet resolved.
Holding == {p \in Tasks : pc[p] \in {"calling", "sleeping"}}
Woken == {p \in Tasks : pc[p] = "woken"}
Waiting == {p \in Tasks : pc[p] = "waiting"}

\* C30: a chunk holds its slot from its first call until its result is
\* stored, backoff included, and gives it back on every exit: the free slots,
\* the chunks calling or backing off and the chunks a freed slot was handed to
\* always add up to max_concurrent; so at most max_concurrent chunks are
\* admitted and unresolved, and while they are that many no waiting chunk
\* starts or is woken; a chunk waits next to a free slot only until a chunk
\* woken before it has resumed.
C30_SlotHeldThroughBackoff ==
    Launched =>
        /\ sem >= 0
        /\ sem + Cardinality(Holding) + Cardinality(Woken) = max_concurrent
        /\ Cardinality(Holding) <= max_concurrent
        /\ Waiting # {} /\ Woken = {} => sem = 0
        /\ \A p \in Tasks : pc[p] \in {"ready", "waiting", "woken"} => calls[p] = 0

\* C30 witness: every slot is held, one of them by a chunk in backoff, while
\* another chunk waits.
C30_Witness ==
    /\ Launched
    /\ Cardinality(Holding) = max_concurrent
    /\ \E p \in Holding : pc[p] = "sleeping"
    /\ Waiting # {}

\* ---- claims about one call of render_translated_text ----

LabelLine == <<"*", "*", "Label", ":", "*", "*", "value">>

\* C21: the text `**Label:** value`, a continuation line, a blank line gives
\* exactly one paragraph element, reading "Label: value <continuation>" with a
\* single colon after the label.
C21_LabelParagraph ==
    (rpc = "idle" /\ rendered = << <<LabelLine, <<"w">>, Blank>> >>)
    => /\ Len(elements) = 1
       /\ elements[1].kind = "paragraph"
       /\ elements[1].text = <<"Label", ":", "value", "w">>

\* The add_chapter calls made for a chapter heading line without title text.
BareHeadingCalls ==
    {k \in 1..Len(chapter_log) :
        LET line == rendered[chapter_log[k].at[1]][chapter_log[k].at[2] + 1]
        IN ChapterMatch(line) /\ ChapterTitle(line) = <<>>}

\* The call c for line i of its text took line j as its title and consumed
\* it: the loop never stood at j and no element was made for j.
TookTitleAt(c, j) ==
    /\ c.title = rendered[c.at[1]][j + 1]
    /\ \A n \in 1..Len(visited) : visited[n] # j
    /\ \A n \in 1..Len(elements) : elements[n].at # <<c.at[1], j>>

\* The lines after line i of the text of call c that may be its title.
NonEmptyAfter(c) ==
    {j \in (c.at[2] + 1)..(Len(rendered[c.at[1]]) - 1) : rendered[c.at[1]][j + 1] # <<>>}
TitleLinesAfter(c) ==
    {j \in NonEmptyAfter(c) : Head(rendered[c.at[1]][j + 1]) # "===="}
Least(S) == CHOOSE j \in S : \A n \in S : j <= n

\* C24 as stated: a chapter heading without title text takes the next
\* non-empty line as its title and consumes it; with no non-empty line after
\* it the title is empty.
C24_NextNonEmptyTitle ==
    \A k \in BareHeadingCalls :
        LET c == chapter_log[k]
        IN IF NonEmptyAfter(c) = {} THEN c.title = <<>>
           ELSE TookTitleAt(c, Least(NonEmptyAfter(c)))

\* C24: a chapter heading without title text takes as its title the next
\* line that is neither empty nor a '====' rule and consumes it; with no such
\* line after it, add_chapter is called with the empty title.
C24_NextTitleLineConsumed ==
    \A k \in BareHeadingCalls :
        LET c == chapter_log[k]
        IN IF TitleLinesAfter(c) = {} THEN c.title = <<>>
           ELSE TookTitleAt(c, Least(TitleLinesAfter(c)))

\* C24 witness: a bare "Chapter 3" line, a blank line and a title line were
\* rendered into one chapter element.
C24_Witness ==
    /\ rpc = "idle"
    /\ rendered = << <<<<"Chapter", "3">>, Blank, <<"w">>>> >>
    /\ BareHeadingCalls = {1}
    /\ chapter_log[1].emitted
    /\ Len(elements) = 1
    /\ elements[1].title = <<"w">>

\* A line that matches one of the structural patterns of the loop.
Structural(line) ==
    \/ Skipped(line) \/ MetaCommentary(line)
    \/ ChapterMatch(line) \/ EpilogueMatch(line) \/ AppendixMatch(line)
    \/ BibliographyMatch(line) \/ SectionMatch(line)
    \/ BoldSectionMatch(line) \/ BoldParaMatch(line)
    \/ EpigraphMatch(line) \/ QuotedDashMatch(line)
    \/ NumberedMatch(line) \/ LetteredMatch(line) \/ ItalicMatch(line)

\* A blank line, or a line that starts with a structural marker: #, ====,
\* ---, **, a numbered or lettered list marker, an epigraph opener.
EndsPlainParagraph(line) ==
    \/ line = <<>>
    \/ line[1] \in {"#", "##", "====", "---"}
    \/ (Len(line) >= 2 /\ line[1] = "*" /\ line[2] \in {"*", Quote})
    \/ (Len(line) >= 2 /\ line[1] \in {"1.", "2.", "A.", "B."})

\* The first index after i at which the text ends or a stopping line stands.
PlainEnd(lines, i) ==
    Least({j \in (i + 1)..Len(lines) :
              j = Len(lines) \/ EndsPlainParagraph(lines[j + 1])})

\* Where the loop stood after it stood at visited[n].
NextVisited(n) == IF n < Len(visited) THEN visited[n + 1] ELSE rpos

\* The elements made for line i of the text.
ElementsAt(i) == SelectSeq(elements, LAMBDA e : e.at = <<1, i>>)

\* C27: a line matching no structural pattern starts one plain paragraph of
\* that line and the lines after it up to the next blank line or line
\* starting a structural marker, joined by single spaces, with the inline
\* **x** and *x* markers stripped; the stopping line is not part of it and is
\* the line processed next.
C27_PlainParagraph ==
    \A n \in 1..Len(visited) :
        LET lines == rendered[1]
            i == visited[n]
            j == PlainEnd(lines, i)
        IN (n < Len(visited) \/ rpos > i) /\ ~Structural(lines[i + 1])
           => /\ NextVisited(n) = j
              /\ Len(ElementsAt(i)) = 1
              /\ ElementsAt(i)[1].kind = "paragraph"
              /\ ElementsAt(i)[1].text
                     = SubItalic(SubBold(JoinLines(SubSeq(lines, i + 1, j))))
              /\ \A m \in (i + 1)..(j - 1) : ElementsAt(m) = <<>>

\* C27 witness: a paragraph of two lines with inline markers was ended by a
\* '---' rule, which was processed next.
C27_Witness ==
    /\ rpc = "idle"
    /\ rendered = << << <<"w", "*", "*", "x", "*", "*", "*", "y", "*">>,
                        <<"w">>, <<"---">> >> >>
    /\ visited = <<0, 2>>
    /\ Len(elements) = 1
    /\ elements[1].text = <<"w", "x", "y", "w">>

\* ---- further claims about translate_chunks ----

\* The indices of the result slots that hold a result.
FilledSlots == {i \in DOMAIN results : results[i] # None}

\* C31: a result is stored, the counter incremented and the observer invoked
\* in one step: after every step completed is the number of filled slots; a
\* step that invokes the observer fills one slot, adds one to the counter and
\* reports that counter, which is the number of filled slots, for a
\* chunk_index whose slot is filled; and every step that fills a slot counts
\* it (and reports it, with an observer).
C31_StoreCountReport ==
    [][/\ completed' = Cardinality(FilledSlots')
       /\ (main = "gather" /\ progress' # progress)
          => /\ Len(progress') = Len(progress) + 1
             /\ SubSeq(progress', 1, Len(progress)) = progress
             /\ progress'[Len(progress')][1] = Cardinality(FilledSlots')
             /\ progress'[Len(progress')][3] \in FilledSlots'
             /\ progress'[Len(progress')][3] \notin FilledSlots
             /\ completed' = completed + 1
       /\ (main = "gather" /\ FilledSlots' # FilledSlots)
          => /\ Cardinality(FilledSlots' \ FilledSlots) = 1
             /\ FilledSlots \subseteq FilledSlots'
             /\ completed' = completed + 1
             /\ on_progress => Len(progress') = completed'
      ]_vars

\* C31 witness: with an observer, two of three chunks were counted and
\* reported out of index order while the first chunk is in backoff.
C31_Witness ==
    /\ main = "gather"
    /\ on_progress
    /\ Len(chunks) = 3
    /\ completed = 2
    /\ FilledSlots = {1, 2}
    /\ Len(progress) = 2
    /\ progress[1][3] = 2
    /\ pc[1] = "sleeping"

\* C32: with max_concurrent >= 1 and max_retries >= 0, when every remote
\* call and every backoff delay completes and tasks are scheduled fairly,
\* every chunk of a launched run is eventually admitted (makes its first
\* call) and resolved, and translate_chunks eventually returns, also with
\* more chunks than max_concurrent.
C32_EventuallyReturns ==
    /\ (main = "gather") ~> (main = "returned" /\ Resolved = Tasks
                             /\ \A p \in Tasks : Slot(p) # None)
    /\ \A p \in 1..MaxChunks :
         (main = "gather" /\ p \in Tasks) ~> (p \in Tasks /\ calls[p] >= 1)
    /\ \A p \in 1..MaxChunks :
         (main = "gather" /\ p \in Tasks) ~> (p \in Tasks /\ pc[p] = "done")

\* C32 witness: a run of more chunks than max_concurrent has returned, one
\* of its chunks after a backoff.
C32_Witness ==
    /\ main = "returned"
    /\ max_concurrent >= 1
    /\ Len(chunks) > max_concurrent
    /\ \E p \in Tasks : attempt[p] >= 1

\* ---- further claims about one call of render_translated_text ----

\* The lines of the text of the current call.
CurrentLines == IF rendered = <<>> THEN <<>> ELSE rendered[Len(rendered)]

\* C33: every iteration of the loop of render_translated_text strictly
\* increases the line index i, whatever branch it takes, and never past the
\* number of lines, so that there are at most as many iterations as lines;
\* and once i has reached the number of lines the call returns: the parse of
\* a finite text terminates.
C33_IndexIncreases ==
    [][rpc = "loop"
       => /\ visited' # visited
             => /\ rpos < Len(CurrentLines)
                /\ rpos' > rpos
                /\ rpos' <= Len(CurrentLines)
                /\ visited' = Append(visited, rpos)
                /\ Len(visited') <= Len(CurrentLines)
                /\ rpc' = "loop"
          /\ visited' = visited
             => /\ rpos = Len(CurrentLines)
                /\ rpc' = "idle"]_vars

\* C33 witness: a call returned after an iteration that took a labeled
\* paragraph of two lines and one that took a list item.
C33_Witness ==
    /\ rpc = "idle"
    /\ rendered = << <<LabelLine, <<"w">>, <<"1.", "w">>>> >>
    /\ visited = <<0, 2>>
    /\ rpos = 3

\* The tokens that are markup, not text.
MarkupTokens == {"*", "#", "##", ":", Quote, "====", "---", EmDash, "-"}
TextTokens(toks) == SelectSeq(toks, LAMBDA t : t \notin MarkupTokens)

\* What an element shows.
ShownTokens(e) == IF e.kind = "chapter" THEN e.label \o e.title ELSE e.text

RECURSIVE LinesTokens(_, _, _)
\* The text tokens of lines i .. j - 1 (indices from 0), in order.
LinesTokens(lines, i, j) ==
    IF i >= j THEN <<>>
    ELSE TextTokens(lines[i + 1]) \o LinesTokens(lines, i + 1, j)

\* A line that is not blank, a rule marker or translator meta-commentary.
ContentLine(line) ==
    /\ line # <<>>
    /\ line[1] \notin {"====", "---"}
    /\ ~MetaCommentary(line)

\* The iteration that stood at line i made an add_chapter call that was
\* suppressed.
SuppressedAt(i) ==
    \E k \in 1..Len(chapter_log) :
        chapter_log[k].at = <<1, i>> /\ ~chapter_log[k].emitted

\* The elements come in the order of their first lines.
ElementsInLineOrder ==
    \A k \in 2..Len(elements) : elements[k - 1].at[2] < elements[k].at[2]

\* The lines i .. j - 1 taken by one iteration are shown by one element, made
\* for line i, and by no other.
ShownOnce(lines, i, j) ==
    /\ Len(ElementsAt(i)) = 1
    /\ TextTokens(ShownTokens(ElementsAt(i)[1])) = LinesTokens(lines, i, j)
    /\ \A m \in (i + 1)..(j - 1) : ElementsAt(m) = <<>>

\* C34 as stated: the elements are emitted in the order of their first
\* lines, no line is shown by two elements, and every line that is not blank,
\* a rule marker or meta-commentary is shown by exactly one element.
C34_EveryLineOnce ==
    /\ ElementsInLineOrder
    /\ \A n \in 1..Len(visited) :
         (\E m \in visited[n]..(NextVisited(n) - 1) : ContentLine(CurrentLines[m + 1]))
         => ShownOnce(CurrentLines, visited[n], NextVisited(n))

\* C34: the elements are emitted in the order of their first lines, no line
\* is shown by two elements, and every line that is not blank, a rule marker
\* or meta-commentary is shown by exactly one element, except the lines of a
\* chapter heading that add_chapter suppresses as a repeat of the last
\* chapter, which are shown by none.
C34_EveryLineOnceUnlessRepeat ==
    /\ ElementsInLineOrder
    /\ \A n \in 1..Len(visited) :
         (\E m \in visited[n]..(NextVisited(n) - 1) : ContentLine(CurrentLines[m + 1]))
         => IF SuppressedAt(visited[n])
            THEN \A m \in visited[n]..(NextVisited(n) - 1) : ElementsAt(m) = <<>>
            ELSE ShownOnce(CurrentLines, visited[n], NextVisited(n))

\* C34 witness: a heading, the same heading again and a paragraph gave a
\* chapter element and a paragraph element; the second heading gave none.
C34_Witness ==
    /\ rpc = "idle"
    /\ Len(CurrentLines) = 3
    /\ CurrentLines[1] = CurrentLines[2]
    /\ visited = <<0, 1, 2>>
    /\ SuppressedAt(1)
    /\ Len(elements) = 2
    /\ elements[2].kind = "paragraph"

====
